---- MODULE Spec2Model ----
(***************************************************************************)
(* A model of the clox bytecode interpreter (src/clox/src).                *)
(*                                                                         *)
(* The module holds several specifications over disjoint groups of         *)
(* variables:                                                              *)
(*   SpecGC   the heap, the objects list, the object nursery and the       *)
(*            mark-sweep collector, driven by the allocating code paths    *)
(*            of vm__init, the compiler and the interpreter loop.          *)
(*   SpecStr  string literals, interning, concatenation and comparison.    *)
(*   SpecVM   the compiler and the interpreter loop on REPL lines.         *)
(*   SpecCall the check of a call (is_valid_call and its callers).         *)
(*   SpecDeep runs that exhaust the frame stack or the value stack.        *)
(*   SpecCapture  a function that captures many enclosing variables.       *)
(*   SpecExpr expressions compiled from their tokens and evaluated.        *)
(*   SpecConstants  a script with many constants.                          *)
(*   SpecToy  the linked list of challenges/listoy.                        *)
(*   SpecTable  the hash table under table__set and table__delete.         *)
(*   SpecMemory  the byte count of memory__reallocate and the threshold.   *)
(*   SpecNursery  the object nursery under any order of open, close and    *)
(*            allocation.                                                  *)
(*   SpecContexts  the compile contexts and the pointer the collector      *)
(*            starts from.                                                 *)
(*   SpecUpvalues  the compiler on a line cut into declarations and        *)
(*            references, for the registration of upvalues.                *)
(*   SpecAssign  lines in which an operand is followed by `=`.             *)
(*   SpecJumps  the distances written by patch_jump and emit_loop.         *)
(*   SpecGlobals  the instructions on global variables, on the hash table. *)
(*   SpecIndex  OP_GET_INDEX and OP_SET_INDEX on a list.                   *)
(*   SpecCalls  the REPL lines of SpecVM, the calls followed to the return.*)
(*   SpecShared  two closures that capture the same variable.              *)
(***************************************************************************)
EXTENDS Integers, Sequences, FiniteSets, TLC

(***************************************************************************)
(* Bounds.                                                                 *)
(***************************************************************************)
\* number of heap cells (addresses) malloc can hand out
MaxObjs == 12
\* string constants stored by one compilation
MaxConstants == 2
\* bytecode instructions executed by one vm__interpret in SpecGC
MaxOps == 3
\* vm__interpret calls / REPL commands issued by main.c
MaxRuns == 2
\* longest string (in characters) the programs build
MaxStrLen == 2
\* reads of freed heap memory an execution is followed through
MaxUndefined == 1

NULL == 0
\* the value of a pointer field that was never written after malloc
GARBAGE == -1

Addrs == 1..MaxObjs

Range(s) == {s[i] : i \in DOMAIN s}

Min(S) == CHOOSE x \in S : \A y \in S : x <= y

(***************************************************************************)
(* Heap cells.  One record shape for every object type; a field an object  *)
(* type does not have stays NULL / empty.                                  *)
(***************************************************************************)
FreeCell ==
  [type |-> "free", is_alive |-> FALSE, chars |-> <<>>, name |-> NULL,
   docstring |-> NULL, function |-> NULL, constants |-> <<>>,
   capacity |-> 0, methods |-> {}]

IsCell(heap, a) == a \in Addrs /\ heap[a].type # "free"

\* character contents used by vm__init and by the programs
STR_INIT == <<1>>
STR_CLOCK == <<2>>
STR_DOC == <<3>>
STR_STR == <<4>>
STR_LENGTH == <<5>>
STR_A == <<6>>
STR_B == <<7>>

GROW_CAPACITY(capacity) == IF capacity < 8 THEN 8 ELSE capacity * 2

(***************************************************************************)
(* The collector (memory.c).  A mark state is the heap with its is_alive   *)
(* flags, the gray set, and two flags that record that the walk read a     *)
(* cell that is not an object (touched) or ran off the objects list        *)
(* (walk_fail).                                                            *)
(***************************************************************************)
memory__mark_object_as_alive(st, a) ==
  IF a = NULL THEN st
  ELSE IF ~IsCell(st.heap, a) THEN [st EXCEPT !.touched = TRUE]
  ELSE IF st.heap[a].is_alive THEN st
  ELSE [st EXCEPT !.heap[a].is_alive = TRUE, !.gray = @ \cup {a}]

RECURSIVE MarkSeq(_, _)
MarkSeq(st, s) ==
  IF s = <<>> THEN st
  ELSE MarkSeq(memory__mark_object_as_alive(st, Head(s)), Tail(s))

RECURSIVE table__mark_as_alive(_, _)
table__mark_as_alive(st, entries) ==
  IF entries = {} THEN st
  ELSE LET e == CHOOSE x \in entries : TRUE
       IN table__mark_as_alive(
            memory__mark_object_as_alive(
              memory__mark_object_as_alive(st, e[1]), e[2]),
            entries \ {e})

compiler__mark_roots(st, chain) == MarkSeq(st, chain)

IndexOf(s, x) == Min({i \in DOMAIN s : s[i] = x})

\* the nursery region: the objects in front of object_nursery_end
NurseryRegion(m) ==
  IF m.object_nursery_end = NULL THEN <<>>
  ELSE IF m.object_nursery_end \in Range(m.objects)
       THEN SubSeq(m.objects, 1, IndexOf(m.objects, m.object_nursery_end) - 1)
       ELSE m.objects

mark_roots(m) ==
  LET s0 == [heap |-> m.heap, gray |-> {}, touched |-> FALSE,
             walk_fail |-> FALSE]
      s1 == memory__mark_object_as_alive(s0, m.init_string)
      s2 == memory__mark_object_as_alive(s1, m.string_class)
      s3 == MarkSeq(s2, m.value_stack)
      s4 == compiler__mark_roots(s3, m.current_fn_compiler)
      s5 == table__mark_as_alive(s4, m.global_vars)
      s6 == MarkSeq(s5, m.frames)
      s7 == MarkSeq(s6, NurseryRegion(m))
  IN [s7 EXCEPT !.walk_fail = m.object_nursery_end # NULL
                   /\ m.object_nursery_end \notin Range(m.objects)]

mark_object_references(st, a) ==
  LET o == st.heap[a] IN
  CASE o.type = "class" ->
         table__mark_as_alive(memory__mark_object_as_alive(st, o.name),
                              o.methods)
    [] o.type = "closure" -> memory__mark_object_as_alive(st, o.function)
    [] o.type = "function" ->
         MarkSeq(memory__mark_object_as_alive(
                   memory__mark_object_as_alive(st, o.name), o.docstring),
                 o.constants)
    [] o.type = "native" ->
         memory__mark_object_as_alive(
           memory__mark_object_as_alive(st, o.name), o.docstring)
    [] OTHER -> st

RECURSIVE trace_references(_)
trace_references(st) ==
  IF st.gray = {} THEN st
  ELSE LET a == CHOOSE x \in st.gray : TRUE
       IN trace_references(
            mark_object_references([st EXCEPT !.gray = @ \ {a}], a))

\* a key that is freed memory is read as garbage: the entry stays
table__remove_dead_objects(st, keys) ==
  {k \in keys : IsCell(st.heap, k) => st.heap[k].is_alive}

\* `new_list` is the list that starts at the new head
vm__reset_objects_list_head(m, new_list) ==
  [m EXCEPT !.objects = new_list,
            !.object_nursery_end =
               IF new_list = <<>> THEN NULL ELSE Head(new_list)]

RECURSIVE sweep_keeps_marks(_, _, _)
sweep_keeps_marks(m, kept, rest) ==
  IF rest = <<>> THEN m
  ELSE LET object == Head(rest) IN
       IF m.heap[object].is_alive
       THEN sweep_keeps_marks(m, Append(kept, object), Tail(rest))
       ELSE LET unlinked ==
                  IF kept # <<>>
                  THEN [m EXCEPT !.objects = kept \o Tail(rest)]
                  ELSE vm__reset_objects_list_head(m, Tail(rest))
            IN sweep_keeps_marks([unlinked EXCEPT !.heap[object] = FreeCell],
                                 kept, Tail(rest))

\* `kept` are the objects already walked over and left linked (previous is
\* the last of them), `rest` is the list from `object` on
RECURSIVE sweep(_, _, _)
sweep(m, kept, rest) ==
  IF rest = <<>> THEN m
  ELSE LET object == Head(rest) IN
       IF m.heap[object].is_alive
       THEN sweep([m EXCEPT !.heap[object].is_alive = FALSE],
                  Append(kept, object), Tail(rest))
       ELSE LET unlinked ==
                  IF kept # <<>>
                  THEN [m EXCEPT !.objects = kept \o Tail(rest)]
                  ELSE vm__reset_objects_list_head(m, Tail(rest))
            IN sweep([unlinked EXCEPT !.heap[object] = FreeCell],
                     kept, Tail(rest))

(***************************************************************************)
(* What the data structures say is reachable, independent of the marking   *)
(* code: the pointer fields of each object (object.h) and the roots the    *)
(* collector is meant to keep.                                             *)
(***************************************************************************)
PointerFields(o) ==
  ({o.name, o.docstring, o.function} \cup Range(o.constants)
     \cup {e[1] : e \in o.methods} \cup {e[2] : e \in o.methods}) \ {NULL}

RootSet(m) ==
  {a \in ({m.init_string, m.string_class} \cup Range(m.value_stack)
            \cup Range(m.current_fn_compiler) \cup Range(m.frames)
            \cup {e[1] : e \in m.global_vars} \cup {e[2] : e \in m.global_vars}
            \cup Range(NurseryRegion(m))) : IsCell(m.heap, a)}

RECURSIVE ReachableFrom(_, _, _)
ReachableFrom(heap, seen, frontier) ==
  IF frontier = {} THEN seen
  ELSE LET next == {r \in UNION {PointerFields(heap[a]) : a \in frontier} :
                      IsCell(heap, r)} \ (seen \cup frontier)
       IN ReachableFrom(heap, seen \cup frontier, next)

Reachable(m) == ReachableFrom(m.heap, {}, RootSet(m))

\* linked objects that hold a pointer to a cell that is no longer an object
DanglingHolders(m) ==
  {a \in Range(m.objects) :
     \E r \in PointerFields(m.heap[a]) : r \in Addrs /\ ~IsCell(m.heap, r)}

NoGcLog == [ran |-> FALSE, lost |-> {}, weak_keys |-> {}, marks_left |-> {}]

\* the keys of the interned strings table, after a collection of `m`, that
\* are not strings which were reachable from the roots and are still linked
UnsoundKeys(m, swept) ==
  {k \in swept.interned_strings :
     ~(/\ IsCell(swept.heap, k)
       /\ swept.heap[k].type = "string"
       /\ k \in Range(swept.objects)
       /\ k \in Reachable(m))}

\* history: what a collection freed of the objects allocated in the
\* nursery scope that is open
NurseryHistory(m, swept) ==
  [swept EXCEPT
     !.nursery_lost = @ \cup (m.nursery_allocated \ Range(swept.objects)),
     !.nursery_allocated = @ \cap Range(swept.objects)]

GcResult(m, marked, swept) ==
  [m |-> NurseryHistory(m, swept),
   touched |-> marked.touched
                 \/ \E k \in m.interned_strings : ~IsCell(m.heap, k),
   walk_fail |-> marked.walk_fail,
   log |-> [ran |-> TRUE, lost |-> Reachable(m) \ Range(swept.objects),
            weak_keys |-> UnsoundKeys(m, swept),
            marks_left |-> {a \in Range(swept.objects) :
                              swept.heap[a].is_alive}]]

Marked(m, marked) ==
  GcResult(m, marked,
           sweep([m EXCEPT !.heap = marked.heap,
                           !.interned_strings =
                              table__remove_dead_objects(marked, @)],
                 <<>>, m.objects))

memory__run_gc(m) == Marked(m, trace_references(mark_roots(m)))

\* reading memory that is not an object is undefined: the build either
\* faults or goes on with what it read.  An execution is followed through
\* at most MaxUndefined such reads
CanSurvive(m) == m.undefined_reads < MaxUndefined

Survived(m, reads_freed) ==
  IF reads_freed THEN [m EXCEPT !.undefined_reads = @ + 1] ELSE m

UBOutcomes(m, reads_freed) ==
  IF ~reads_freed THEN {"survive"}
  ELSE IF CanSurvive(m) THEN {"survive", "crash"} ELSE {"crash"}

\* outcome of one allocation request: "none" no collection, "run" a
\* collection that completes, "crash" a collection that faults while it
\* reads freed memory or the FunctionCompiler of a compile call that has
\* returned
GcChoices == {"none", "run", "crash"}

GcOutcome(m, gc, r) ==
  IF r.walk_fail
  THEN [ok |-> TRUE, m |-> [m EXCEPT !.crashed = TRUE], log |-> NoGcLog]
  ELSE IF gc = "crash"
  THEN [ok |-> r.touched \/ m.compiler_stale,
        m |-> [m EXCEPT !.crashed = TRUE], log |-> NoGcLog]
  ELSE [ok |-> r.touched => CanSurvive(m),
        m |-> Survived(r.m, r.touched), log |-> r.log]

memory__reallocate(m, gc) ==
  IF gc = "none" THEN [ok |-> TRUE, m |-> m, log |-> NoGcLog]
  ELSE GcOutcome(m, gc, memory__run_gc(m))

memory__open_object_nursery(m) ==
  [m EXCEPT !.object_nursery_end =
               IF @ = NULL
               THEN (IF m.objects = <<>> THEN NULL ELSE Head(m.objects))
               ELSE @,
            !.object_nursery_nested_scopes = @ + 1]

memory__close_object_nursery(m) ==
  IF m.object_nursery_nested_scopes = 0 THEN m
  ELSE [m EXCEPT !.object_nursery_nested_scopes = @ - 1,
                 !.object_nursery_end =
                    IF m.object_nursery_nested_scopes = 1 THEN NULL ELSE @,
                 !.nursery_allocated =
                    IF m.object_nursery_nested_scopes = 1 THEN {} ELSE @,
                 !.nursery_lost =
                    IF m.object_nursery_nested_scopes = 1 THEN {} ELSE @,
                 !.nursery_inner_closed = m.object_nursery_nested_scopes > 1]

FreeAddrs(m) == {a \in Addrs : m.heap[a].type = "free"}

\* every pointer the program holds, in the VM, in objects and in tables
HeldPointers(m, locals) ==
  {m.init_string, m.string_class, m.object_nursery_end}
    \cup Range(m.value_stack) \cup Range(m.frames)
    \cup Range(m.current_fn_compiler) \cup Range(locals)
    \cup m.interned_strings
    \cup {e[1] : e \in m.global_vars} \cup {e[2] : e \in m.global_vars}
    \cup UNION {PointerFields(m.heap[a]) : a \in Addrs}

\* malloc returns any free cell.  Cells no pointer refers to are
\* interchangeable, so one of them stands for all; a free cell that a stale
\* pointer still refers to is a different choice
AllocAddrs(m, locals) ==
  LET stale == FreeAddrs(m) \cap HeldPointers(m, locals)
      clean == FreeAddrs(m) \ stale
  IN stale \cup (IF clean = {} THEN {} ELSE {Min(clean)})

track_object_for_gc(m, a, cell) ==
  [m EXCEPT !.heap[a] = [cell EXCEPT !.is_alive = FALSE],
            !.objects = <<a>> \o @,
                        !.nursery_allocated =
               IF m.object_nursery_nested_scopes > 0 THEN @ \cup {a} ELSE @]

(***************************************************************************)
(* SpecGC state.                                                           *)
(*   mem       the VM struct as the collector sees it, with the heap       *)
(*   todo      the rest of the C code path in progress, as the sequence of *)
(*             its steps; each step holds at most one allocation request   *)
(*   tmp       the object pointers held in C locals of that code path      *)
(*   phase     where main.c is: "init", "repl", "compile" or "run"         *)
(*   ops_left, runs_left   remaining instruction / command budget          *)
(*   last_gc   history variable: whether the latest allocation request ran *)
(*             a collection, and the objects that were reachable when it   *)
(*             started and are not linked after its sweep (lost), the keys *)
(*             it left in the interned strings table that are not such     *)
(*             objects (weak_keys), and the linked objects it left marked  *)
(*             (marks_left)                                                *)
(* mem.nursery_allocated and mem.nursery_lost are history fields: the      *)
(* objects allocated since the outermost nursery scope was opened, and     *)
(* those of them a collection has freed since.  mem.nursery_inner_closed   *)
(* is a history field too: a nested scope was closed since the outermost   *)
(* scope was opened, which is still open.                                  *)
(***************************************************************************)
VARIABLES mem, todo, tmp, phase, ops_left, runs_left, last_gc

gc_vars == <<mem, todo, tmp, phase, ops_left, runs_left, last_gc>>

Step(op, arg) == [op |-> op, arg |-> arg]

\* string__allocate after the lookup failed
string__allocate(chars) ==
  <<Step("open", <<>>), Step("new_string", chars), Step("intern", <<>>),
    Step("close", <<>>)>>

\* define_native_function / define_method without the final table__set
NativeProgram(name, doc) ==
  <<Step("open", <<>>), Step("copy", name), Step("new_native", <<>>),
    Step("copy", doc), Step("set_docstring", <<>>)>>

\* vm__init from `vm->init_string = string__copy(...)` on; init_stdlib is
\* cut down to one native function and the string class with one method
VmInitProgram ==
  <<Step("copy", STR_INIT), Step("set_init_string", <<>>)>>
  \o NativeProgram(STR_CLOCK, STR_DOC)
  \o <<Step("global_set", <<>>), Step("close", <<>>)>>
  \o <<Step("open", <<>>), Step("open", <<>>), Step("copy", STR_STR),
       Step("new_class", <<>>)>>
  \o NativeProgram(STR_LENGTH, STR_DOC)
  \o <<Step("method_set", <<>>), Step("close", <<>>), Step("close", <<>>),
       Step("set_string_class", <<>>), Step("close", <<>>)>>

\* the VM when vm__init begins: no object, no nursery scope
EmptyVM ==
  [heap |-> [a \in Addrs |-> FreeCell],
   objects |-> <<>>, object_nursery_end |-> NULL,
   object_nursery_nested_scopes |-> 0,
   interned_strings |-> {}, interned_allocated |-> FALSE,
   global_vars |-> {}, value_stack |-> <<>>, frames |-> <<>>,
   init_string |-> NULL, string_class |-> NULL,
   current_fn_compiler |-> <<>>, compiler_stale |-> FALSE,
   nursery_allocated |-> {}, nursery_lost |-> {},
   nursery_inner_closed |-> FALSE,
   undefined_reads |-> 0, crashed |-> FALSE]

GCInit ==
  /\ mem = EmptyVM
  /\ todo = VmInitProgram
  /\ tmp = <<>>
  /\ phase = "init"
  /\ ops_left = 0
  /\ runs_left = MaxRuns
  /\ last_gc = NoGcLog

At(op) == ~mem.crashed /\ todo # <<>> /\ Head(todo).op = op

AtPrompt == ~mem.crashed /\ todo = <<>> /\ phase \in {"init", "repl"}

Top(s) == s[Len(s)]

Pop(s, n) == SubSeq(s, 1, Len(s) - n)

Fault == mem' = [mem EXCEPT !.crashed = TRUE]

\* the interned string with these characters (table__find_string)
table__find_string(m, chars) ==
  {k \in m.interned_strings : IsCell(m.heap, k) /\ m.heap[k].chars = chars}

HasDanglingKey(m) == \E k \in m.interned_strings : ~IsCell(m.heap, k)

\* the outcomes of one allocation request made in state m; `grows` says
\* whether the request asks for more memory than the block has
AllocRequest(m, grows) ==
  {r \in {memory__reallocate(m, gc) :
            gc \in (IF grows THEN GcChoices ELSE {"none"})} : r.ok}

\* the outcomes of reading a field of `object`, which may be freed memory
ReadObject(m, object) ==
  IF m.crashed THEN {m}
  ELSE {IF ub = "crash" THEN [m EXCEPT !.crashed = TRUE]
        ELSE Survived(m, ~IsCell(m.heap, object)) :
          ub \in UBOutcomes(m, ~IsCell(m.heap, object))}

\* table__find_string compares against every key it probes
ReadKeys(m) ==
  {IF ub = "crash" THEN [m EXCEPT !.crashed = TRUE]
   ELSE Survived(m, HasDanglingKey(m)) :
     ub \in UBOutcomes(m, HasDanglingKey(m))}

\* string__copy up to the allocation of the character buffer
string__copy ==
  /\ At("copy")
  /\ \E m0 \in ReadKeys(mem) :
       IF m0.crashed
       THEN mem' = m0 /\ UNCHANGED <<todo, tmp, last_gc>>
       ELSE IF table__find_string(mem, Head(todo).arg) # {}
       THEN /\ tmp' = Append(tmp, CHOOSE k \in
                               table__find_string(mem, Head(todo).arg) : TRUE)
            /\ todo' = Tail(todo)
            /\ mem' = m0
            /\ UNCHANGED last_gc
       ELSE \E r \in AllocRequest(m0, TRUE) :
              /\ mem' = r.m
              /\ last_gc' = r.log
              /\ todo' = string__allocate(Head(todo).arg) \o Tail(todo)
              /\ UNCHANGED tmp
  /\ UNCHANGED <<phase, ops_left, runs_left>>

\* string__take_ownership: the caller has built the character buffer
string__take_ownership ==
  /\ At("take")
  /\ \E m0 \in ReadKeys(mem) :
       /\ mem' = m0
       /\ IF m0.crashed
          THEN UNCHANGED <<todo, tmp>>
          ELSE IF table__find_string(mem, Head(todo).arg) # {}
          THEN /\ tmp' = Append(tmp, CHOOSE k \in
                               table__find_string(mem, Head(todo).arg) : TRUE)
               /\ todo' = Tail(todo)
          ELSE /\ todo' = string__allocate(Head(todo).arg) \o Tail(todo)
               /\ UNCHANGED tmp
  /\ UNCHANGED <<phase, ops_left, runs_left, last_gc>>

open_object_nursery ==
  /\ At("open")
  /\ mem' = memory__open_object_nursery(mem)
  /\ todo' = Tail(todo)
  /\ UNCHANGED <<tmp, phase, ops_left, runs_left, last_gc>>

close_object_nursery ==
  /\ At("close")
  /\ mem' = memory__close_object_nursery(mem)
  /\ todo' = Tail(todo)
  /\ UNCHANGED <<tmp, phase, ops_left, runs_left, last_gc>>

\* ALLOCATE_OBJECT: memory__reallocate, then the object is linked and its
\* fields are written; the new pointer goes to a C local
object__allocate(cell) ==
  \E r \in AllocRequest(mem, TRUE) :
    /\ last_gc' = r.log
    /\ IF r.m.crashed
       THEN mem' = r.m /\ UNCHANGED <<todo, tmp>>
       ELSE \E a \in AllocAddrs(r.m, tmp) :
              /\ mem' = track_object_for_gc(r.m, a, cell)
              /\ tmp' = Append(tmp, a)
              /\ todo' = Tail(todo)

\* string__allocate: ALLOCATE_OBJECT(ObjectString)
new_string ==
  /\ At("new_string")
  /\ object__allocate([FreeCell EXCEPT !.type = "string",
                                       !.chars = Head(todo).arg])
  /\ UNCHANGED <<phase, ops_left, runs_left>>

\* native_function__new up to the copy of the docstring: the docstring
\* field is not written yet
native_function__new ==
  /\ At("new_native")
  /\ object__allocate([FreeCell EXCEPT !.type = "native", !.name = Top(tmp),
                                       !.docstring = GARBAGE])
  /\ UNCHANGED <<phase, ops_left, runs_left>>

class__new ==
  /\ At("new_class")
  /\ object__allocate([FreeCell EXCEPT !.type = "class", !.name = Top(tmp)])
  /\ UNCHANGED <<phase, ops_left, runs_left>>

\* table__set: the table may have to grow, which is an allocation request;
\* a table that was never allocated always grows
TableGrows(never_allocated) ==
  IF never_allocated THEN {TRUE} ELSE BOOLEAN

TableSet(entries, key, value) ==
  {e \in entries : e[1] # key} \cup {<<key, value>>}

\* table__set(&vm->interned_strings, string, NIL_VALUE) in string__allocate
intern_string ==
  /\ At("intern")
  /\ \E grows \in TableGrows(~mem.interned_allocated) :
     \E r \in AllocRequest(mem, grows) :
     \E m1 \in ReadObject(r.m, Top(tmp)) :
       /\ last_gc' = r.log
       /\ IF m1.crashed
          THEN mem' = m1 /\ UNCHANGED todo
          ELSE /\ mem' = [m1 EXCEPT !.interned_strings = @ \cup {Top(tmp)},
                                    !.interned_allocated = TRUE]
               /\ todo' = Tail(todo)
  /\ UNCHANGED <<tmp, phase, ops_left, runs_left>>

\* vm->init_string = string__copy("__init__", ...) in vm__init
set_init_string ==
  /\ At("set_init_string")
  /\ mem' = [mem EXCEPT !.init_string = Top(tmp)]
  /\ tmp' = Pop(tmp, 1)
  /\ todo' = Tail(todo)
  /\ UNCHANGED <<phase, ops_left, runs_left, last_gc>>

\* callable->docstring = string__copy(docstring, ...); the C locals are
\* ..., native, docstring
set_docstring ==
  /\ At("set_docstring")
  /\ IF ~IsCell(mem.heap, tmp[Len(tmp) - 1])
     THEN Fault /\ UNCHANGED <<todo, tmp>>
     ELSE /\ mem' = [mem EXCEPT !.heap[tmp[Len(tmp) - 1]].docstring = Top(tmp)]
          /\ tmp' = Pop(tmp, 1)
          /\ todo' = Tail(todo)
  /\ UNCHANGED <<phase, ops_left, runs_left, last_gc>>

\* table__set(&vm->global_vars, _name, native) in define_native_function;
\* the C locals are _name, native
define_native_function ==
  /\ At("global_set")
  /\ \E grows \in TableGrows(mem.global_vars = {}) :
     \E r \in AllocRequest(mem, grows) :
     \E m1 \in ReadObject(r.m, tmp[Len(tmp) - 1]) :
       /\ last_gc' = r.log
       /\ IF m1.crashed
          THEN mem' = m1 /\ UNCHANGED <<todo, tmp>>
          ELSE /\ mem' = [m1 EXCEPT !.global_vars =
                             TableSet(@, tmp[Len(tmp) - 1], Top(tmp))]
               /\ tmp' = Pop(tmp, 2)
               /\ todo' = Tail(todo)
  /\ UNCHANGED <<phase, ops_left, runs_left>>

\* table__set(&_class->methods, method_name, native_fn) in define_method;
\* the C locals are class_name, _class, method_name, native_fn
define_method ==
  /\ At("method_set")
  /\ IF ~IsCell(mem.heap, tmp[Len(tmp) - 2])
     THEN Fault /\ UNCHANGED <<todo, tmp, last_gc>>
     ELSE
     \E grows \in TableGrows(mem.heap[tmp[Len(tmp) - 2]].methods = {}) :
     \E r \in AllocRequest(mem, grows) :
     \E m1 \in ReadObject(r.m, tmp[Len(tmp) - 1]) :
       /\ last_gc' = r.log
       /\ IF m1.crashed
          THEN mem' = m1 /\ UNCHANGED <<todo, tmp>>
          ELSE IF ~IsCell(m1.heap, tmp[Len(tmp) - 2])
          THEN mem' = [m1 EXCEPT !.crashed = TRUE] /\ UNCHANGED <<todo, tmp>>
          ELSE /\ mem' = [m1 EXCEPT !.heap[tmp[Len(tmp) - 2]].methods =
                             TableSet(@, tmp[Len(tmp) - 1], Top(tmp))]
               /\ tmp' = Pop(tmp, 2)
               /\ todo' = Tail(todo)
  /\ UNCHANGED <<phase, ops_left, runs_left>>

\* vm->string_class = lox_string__new_class("str", vm) in init_stdlib; the
\* C locals are class_name, _class
set_string_class ==
  /\ At("set_string_class")
  /\ mem' = [mem EXCEPT !.string_class = Top(tmp)]
  /\ tmp' = Pop(tmp, 2)
  /\ todo' = Tail(todo)
  /\ UNCHANGED <<phase, ops_left, runs_left, last_gc>>

(***************************************************************************)
(* vm__interpret: compilation.  The program is left open: the compiler     *)
(* stores up to MaxConstants string constants, one per string literal or   *)
(* identifier it meets.                                                    *)
(***************************************************************************)
reset_for_execution_gc(m) ==
  [m EXCEPT !.value_stack = <<>>, !.frames = <<>>,
            !.current_fn_compiler = <<>>, !.compiler_stale = FALSE]

\* vm__interpret up to function__new in function_compiler__init
compiler__compile_gc ==
  /\ AtPrompt
  /\ runs_left > 0
  /\ \E r \in AllocRequest(reset_for_execution_gc(mem), TRUE) :
       /\ last_gc' = r.log
       /\ IF r.m.crashed
          THEN mem' = r.m /\ UNCHANGED <<phase, runs_left>>
          ELSE \E a \in AllocAddrs(r.m, tmp) :
                 /\ mem' = [track_object_for_gc(r.m, a,
                              [FreeCell EXCEPT !.type = "function"])
                            EXCEPT !.current_fn_compiler = <<a>>]
                 /\ phase' = "compile"
                 /\ runs_left' = runs_left - 1
  /\ UNCHANGED <<todo, tmp, ops_left>>

CompilingFunction == Head(mem.current_fn_compiler)

Compiling == ~mem.crashed /\ phase = "compile" /\ todo = <<>>

\* string / store_identifier_constant: string__copy, then store_constant
store_identifier_constant_gc ==
  /\ Compiling
  /\ Len(mem.heap[CompilingFunction].constants) < MaxConstants
  /\ \E chars \in {STR_A, STR_B} :
       todo' = <<Step("copy", chars), Step("append_constant", <<>>)>>
  /\ UNCHANGED <<mem, tmp, phase, ops_left, runs_left, last_gc>>

ConstantsGrow(function) ==
  Len(function.constants) + 1 > function.capacity

\* value_array__append
value_array__append(function, value) ==
  [function EXCEPT
     !.capacity = IF ConstantsGrow(function) THEN GROW_CAPACITY(@) ELSE @,
     !.constants = Append(@, value)]

\* bytecode__store_constant: value_array__append to the constants
bytecode__store_constant ==
  /\ At("append_constant")
  /\ \E r \in AllocRequest(mem, ConstantsGrow(mem.heap[CompilingFunction])) :
       /\ last_gc' = r.log
       /\ IF r.m.crashed
          THEN mem' = r.m /\ UNCHANGED <<todo, tmp>>
          ELSE /\ mem' = [r.m EXCEPT !.heap[CompilingFunction] =
                             value_array__append(@, Top(tmp))]
               /\ tmp' = Pop(tmp, 1)
               /\ todo' = Tail(todo)
  /\ UNCHANGED <<phase, ops_left, runs_left>>

\* compiler__compile returns NULL after a syntax error: vm__interpret
\* returns INTERPRET_COMPILE_ERROR
compile_error ==
  /\ Compiling
  /\ mem' = [mem EXCEPT !.compiler_stale = TRUE]
  /\ phase' = "repl"
  /\ UNCHANGED <<todo, tmp, ops_left, runs_left, last_gc>>

\* vm__interpret after compiler__compile: the function is pushed,
\* closure__new allocates, the closure replaces the function on the stack
\* and call_closure pushes the first frame
vm__interpret_gc ==
  /\ Compiling
  /\ \E r \in AllocRequest([mem EXCEPT !.compiler_stale = TRUE,
                                       !.value_stack = <<CompilingFunction>>],
                           TRUE) :
       /\ last_gc' = r.log
       /\ IF r.m.crashed
          THEN mem' = r.m /\ UNCHANGED <<phase, ops_left>>
          ELSE \E a \in AllocAddrs(r.m, tmp) :
                 /\ mem' = [track_object_for_gc(r.m, a,
                              [FreeCell EXCEPT !.type = "closure",
                                               !.function = CompilingFunction])
                            EXCEPT !.value_stack = <<a>>, !.frames = <<a>>]
                 /\ phase' = "run"
                 /\ ops_left' = MaxOps
  /\ UNCHANGED <<todo, tmp, runs_left>>

(***************************************************************************)
(* vm__interpret: the instructions of run() that allocate or that change   *)
(* what the collector can reach.  Only object values are kept on the       *)
(* value stack of this specification.                                      *)
(***************************************************************************)
Running_gc == ~mem.crashed /\ phase = "run" /\ todo = <<>> /\ ops_left > 0

FrameConstants == mem.heap[mem.heap[mem.frames[1]].function].constants

OP_LOAD_CONSTANT_gc ==
  /\ Running_gc
  /\ Len(mem.value_stack) < 3
  /\ \E k \in DOMAIN FrameConstants :
       mem' = [mem EXCEPT !.value_stack = Append(@, FrameConstants[k])]
  /\ ops_left' = ops_left - 1
  /\ UNCHANGED <<todo, tmp, phase, runs_left, last_gc>>

OP_POP_gc ==
  /\ Running_gc
  /\ Len(mem.value_stack) > 1
  /\ mem' = [mem EXCEPT !.value_stack = Pop(@, 1)]
  /\ ops_left' = ops_left - 1
  /\ UNCHANGED <<todo, tmp, phase, runs_left, last_gc>>

\* runtime_error: the message is printed and reset_for_execution runs
runtime_error_gc(m) == reset_for_execution_gc(m)

IsString(m, a) == IsCell(m.heap, a) /\ m.heap[a].type = "string"

\* the characters of the two strings on top of the stack, joined
Joined(m) ==
  m.heap[m.value_stack[Len(m.value_stack) - 1]].chars
    \o m.heap[Top(m.value_stack)].chars

\* OP_ADD on two strings: concatenate up to string__take_ownership.  An
\* operand that is freed memory either faults or fails the IS_STRING test
OP_ADD_gc ==
  /\ Running_gc
  /\ Len(mem.value_stack) > 2
  /\ IF IsString(mem, Top(mem.value_stack))
        /\ IsString(mem, mem.value_stack[Len(mem.value_stack) - 1])
     THEN /\ Len(Joined(mem)) <= MaxStrLen
          /\ \E r \in AllocRequest(mem, TRUE) :
               /\ last_gc' = r.log
               /\ IF r.m.crashed
                  THEN mem' = r.m /\ UNCHANGED todo
                  ELSE /\ mem' = [r.m EXCEPT !.value_stack = Pop(@, 2)]
                       /\ todo' = <<Step("take", Joined(mem)),
                                    Step("push", <<>>)>>
          /\ UNCHANGED phase
     ELSE \E ub \in UBOutcomes(mem, TRUE) :
            /\ IF ub = "crash"
               THEN Fault /\ UNCHANGED phase
               ELSE /\ mem' = runtime_error_gc(Survived(mem, TRUE))
                    /\ phase' = "repl"
            /\ UNCHANGED <<todo, last_gc>>
  /\ ops_left' = ops_left - 1
  /\ UNCHANGED <<tmp, runs_left>>

\* push_value(OBJECT_VALUE(result), vm) at the end of concatenate
concatenate ==
  /\ At("push")
  /\ mem' = [mem EXCEPT !.value_stack = Append(@, Top(tmp))]
  /\ tmp' = Pop(tmp, 1)
  /\ todo' = Tail(todo)
  /\ UNCHANGED <<phase, ops_left, runs_left, last_gc>>

\* OP_DEFINE_GLOBAL: table__set(&vm->global_vars, name, peek(0)), then pop
OP_DEFINE_GLOBAL_gc ==
  /\ Running_gc
  /\ Len(mem.value_stack) > 1
  /\ \E k \in DOMAIN FrameConstants :
     \E grows \in BOOLEAN :
     \E r \in AllocRequest(mem, grows) :
     \E m1 \in ReadObject(r.m, FrameConstants[k]) :
       /\ last_gc' = r.log
       /\ IF m1.crashed
          THEN mem' = m1
          ELSE mem' = [m1 EXCEPT
                         !.global_vars = TableSet(@, FrameConstants[k],
                                                  Top(mem.value_stack)),
                         !.value_stack = Pop(@, 1)]
  /\ ops_left' = ops_left - 1
  /\ UNCHANGED <<todo, tmp, phase, runs_left>>

\* OP_RETURN of the top-level script: the frame and the closure are popped
\* and run() returns INTERPRET_OK
OP_RETURN_gc ==
  /\ ~mem.crashed /\ phase = "run" /\ todo = <<>>
  /\ Len(mem.value_stack) = 1
  /\ mem' = [mem EXCEPT !.value_stack = <<>>, !.frames = <<>>]
  /\ phase' = "repl"
  /\ UNCHANGED <<todo, tmp, ops_left, runs_left, last_gc>>

\* the REPL command that runs memory__run_gc
repl_gc ==
  /\ AtPrompt
  /\ phase = "repl"
  /\ runs_left > 0
  /\ \E r \in AllocRequest(mem, TRUE) :
       /\ r.log.ran \/ r.m.crashed
       /\ mem' = r.m
       /\ last_gc' = r.log
  /\ runs_left' = runs_left - 1
  /\ UNCHANGED <<todo, tmp, phase, ops_left>>

(***************************************************************************)
(* SpecStr: string interning (object.c, table.c, cstring.c).  Characters   *)
(* are their ASCII codes; a literal is the text between the quotes as the  *)
(* scanner hands it to the compiler.  A uint32_t hash is the pair of its   *)
(* high and low 16 bits.                                                   *)
(***************************************************************************)
\* longest literal, in source characters
MaxLiteralLen == 2
\* string objects allocated
MaxStrings == 3

CH_TAB == 9
CH_NEWLINE == 10
CH_BACKSLASH == 92
CH_a == 97
CH_n == 110
CH_t == 116

RECURSIVE XorBits(_, _, _)
XorBits(a, b, bits) ==
  IF bits = 0 THEN 0
  ELSE (IF a % 2 = b % 2 THEN 0 ELSE 1)
         + 2 * XorBits(a \div 2, b \div 2, bits - 1)

\* hash *= 16777619 on 32 bits; 16777619 = 2^24 + 403
FnvMultiply(h) ==
  [lo |-> (h.lo * 403) % 65536,
   hi |-> (h.hi * 403 + (h.lo * 403) \div 65536 + (h.lo % 256) * 256) % 65536]

RECURSIVE FnvFold(_, _)
FnvFold(h, key) ==
  IF key = <<>> THEN h
  ELSE FnvFold(FnvMultiply([h EXCEPT !.lo = XorBits(@, Head(key), 16)]),
               Tail(key))

\* 2166136261 = 33052 * 2^16 + 40389
cstr__hash(key) == FnvFold([hi |-> 33052, lo |-> 40389], key)

\* `rest` is the source text from `it` to `end`
get_escaped_char(rest) ==
  IF rest[1] = CH_BACKSLASH /\ Len(rest) > 1
  THEN CASE rest[2] = CH_n -> CH_NEWLINE
         [] rest[2] = CH_t -> CH_TAB
         [] rest[2] = CH_BACKSLASH -> CH_BACKSLASH
         [] OTHER -> 0
  ELSE rest[1]

advance_chars_count(rest) ==
  IF rest[1] = get_escaped_char(rest) /\ rest[1] # CH_BACKSLASH THEN 1 ELSE 2

Drop(s, n) == IF n >= Len(s) THEN <<>> ELSE SubSeq(s, n + 1, Len(s))

RECURSIVE count_effective_chars(_)
count_effective_chars(rest) ==
  IF rest = <<>> THEN 0
  ELSE 1 + count_effective_chars(Drop(rest, advance_chars_count(rest)))

RECURSIVE copy_with_translated_escapes(_)
copy_with_translated_escapes(rest) ==
  IF rest = <<>> THEN <<>>
  ELSE <<get_escaped_char(rest)>>
         \o copy_with_translated_escapes(Drop(rest, advance_chars_count(rest)))

\*   str_heap    the ObjectStrings allocated so far, all interned; an
\*               ObjectString is designated by its index
\*   str_stack   the string operands on the value stack
\*   str_equal   the latest OP_EQUAL: its operands and its result
VARIABLES str_heap, str_stack, str_equal

str_vars == <<str_heap, str_stack, str_equal>>

Literals ==
  UNION {[1..n -> {CH_a, CH_n, CH_BACKSLASH}] : n \in 1..MaxLiteralLen}

\* memcmp(entry->key->chars, chars, length) == 0; key->chars holds
\* key.length characters and the terminating 0
SamePrefix(key, chars, length) ==
  \A i \in 1..length :
    (IF i <= key.length THEN key.chars[i] ELSE 0) = chars[i]

\* table__find_string over the interned strings
FindInterned(chars, length, hash) ==
  {i \in DOMAIN str_heap :
     /\ str_heap[i].length = length
     /\ str_heap[i].hash = hash
     /\ SamePrefix(str_heap[i], chars, length)}

StrInit ==
  /\ str_heap = <<>>
  /\ str_stack = <<>>
  /\ str_equal = [done |-> FALSE, a |-> 0, b |-> 0, result |-> FALSE]

\* string__allocate: the new ObjectString is the last of str_heap; a string
\* made for a literal is a constant of the function being compiled
Interned(chars, length, hash, constant) ==
  Append(str_heap, [chars |-> chars, length |-> length, hash |-> hash,
                    constant |-> constant])

\* string() in the compiler and the OP_LOAD_CONSTANT that pushes the
\* constant: string__copy of the literal
string_literal ==
  \E raw \in Literals :
    /\ Len(str_stack) < 2
    /\ \/ \E i \in FindInterned(raw, Len(raw), cstr__hash(raw)) :
            /\ str_heap' = [str_heap EXCEPT ![i].constant = TRUE]
            /\ str_stack' = Append(str_stack, i)
       \/ /\ FindInterned(raw, Len(raw), cstr__hash(raw)) = {}
          /\ Len(str_heap) < MaxStrings
          /\ str_heap' = Interned(copy_with_translated_escapes(raw),
                                  count_effective_chars(raw),
                                  cstr__hash(raw), TRUE)
          /\ str_stack' = Append(str_stack, Len(str_heap) + 1)
    /\ UNCHANGED str_equal

\* the characters concatenate builds from the two operands
Concatenated == str_heap[str_stack[1]].chars \o str_heap[str_stack[2]].chars

\* OP_ADD on two strings: concatenate, string__take_ownership
OP_ADD_str ==
  /\ Len(str_stack) = 2
  /\ \/ \E i \in FindInterned(Concatenated, Len(Concatenated),
                              cstr__hash(Concatenated)) :
          /\ str_stack' = <<i>>
          /\ UNCHANGED str_heap
     \/ /\ FindInterned(Concatenated, Len(Concatenated),
                        cstr__hash(Concatenated)) = {}
        /\ Len(str_heap) < MaxStrings
        /\ str_heap' = Interned(Concatenated, Len(Concatenated),
                                cstr__hash(Concatenated), FALSE)
        /\ str_stack' = <<Len(str_heap) + 1>>
  /\ UNCHANGED str_equal

\* OP_EQUAL on two strings: value__equals compares the object pointers
OP_EQUAL_str ==
  /\ Len(str_stack) = 2
  /\ str_equal' = [done |-> TRUE, a |-> str_stack[1], b |-> str_stack[2],
                   result |-> str_stack[1] = str_stack[2]]
  /\ str_stack' = <<>>
  /\ UNCHANGED str_heap

\* OP_POP
OP_POP_str ==
  /\ str_stack # <<>>
  /\ str_stack' = Pop(str_stack, 1)
  /\ UNCHANGED <<str_heap, str_equal>>

(***************************************************************************)
(* SpecVM: the compiler and the bytecode interpreter (compiler.c, vm.c).   *)
(* A program is given as the tree the parser walks: the compiler operators *)
(* below emit, for each form, the bytes the parse functions of compiler.c  *)
(* emit for it.  Expressions:                                              *)
(*   <<"number", n>>  <<"nil">>  <<"variable", name>>                      *)
(*   <<"assign", name, e>>  <<"unary", e>> (-e)  <<"binary", e1, e2>> (+)  *)
(*   <<"call", callee, <<args>>>>  <<"dot", e, name>>                      *)
(*   <<"tokens", <<tokens>>>>  an expression as its tokens                 *)
(* Declarations and statements:                                            *)
(*   <<"var", name, e>>  <<"fun", name, <<params>>, <<body>>>>             *)
(*   <<"expr", e>>  <<"return", e>>  <<"block", <<declarations>>>>         *)
(* Bytecode is the sequence of bytes of the Bytecode struct: an opcode is  *)
(* written by its name.  Nothing is garbage collected in this part.        *)
(***************************************************************************)
\* lines the REPL reads
MaxLines == 2

NIL_VALUE == [t |-> "nil", v |-> 0]
ERROR_VALUE == [t |-> "error", v |-> 0]
NUMBER_VALUE(n) == [t |-> "number", v |-> n]
OBJECT_VALUE(type, ref) == [t |-> type, v |-> ref]
\* the boolean is kept as 1 or 0
BOOL_VALUE(b) == [t |-> "bool", v |-> IF b THEN 1 ELSE 0]

\* A Compiler and its chain of FunctionCompilers (the last is current):
\*   functions   the ObjectFunctions of the heap, each one designated by
\*               its index
\*   compilers   [function, function_type, locals, scope_depth, upvalues],
\*               each one enclosing the next
\*   had_error   parser->had_error
\*   location    the value the last helper returned
\*   ends        the code offsets of the script at which a top-level
\*               declaration ends
CurrentCompiler(c) == c.compilers[Len(c.compilers)]

current_bytecode(c) == CurrentCompiler(c).function

\* what common.h defines (UINT8_MAX + 1)
UINT8_COUNT == 256

\* stdint.h
UINT8_MAX == 255

\* error_at on the previous token; the message is not kept
error(c) == [c EXCEPT !.had_error = TRUE, !.panic_mode = TRUE]

\* error_at: in panic mode the error is not reported
error_at(c, message) ==
  IF c.panic_mode THEN c
  ELSE [c EXCEPT !.panic_mode = TRUE, !.had_error = TRUE,
                 !.messages = @ \cup {message}]

\* the statements are given whole: no token is skipped
synchronize(c) == [c EXCEPT !.panic_mode = FALSE]

\* the compiler has a function being compiled; asked before each
\* declaration or argument, it makes `c` be evaluated before the next one is
\* compiled
InFunction(c) == c.compilers # <<>>

emit_byte(c, byte) ==
  [c EXCEPT !.functions[current_bytecode(c)].code = Append(@, byte)]

emit_bytes(c, byte1, byte2) == emit_byte(emit_byte(c, byte1), byte2)

\* emit_bytes(op, location) where the location was just returned
emit_with_location(c, op) == emit_bytes(c, op, c.location)

\* a store_constant that returns the location as a uint8_t without testing it
store_constant_untested(c, value) ==
  [c EXCEPT
     !.location = Len(c.functions[current_bytecode(c)].constants)
                    % UINT8_COUNT,
     !.functions[current_bytecode(c)].constants = Append(@, value)]

\* the constant is stored before its location is tested
store_constant(c, value) ==
  IF Len(c.functions[current_bytecode(c)].constants) > UINT8_MAX
  THEN [error(c) EXCEPT
          !.location = 0,
          !.functions[current_bytecode(c)].constants = Append(@, value)]
  ELSE [c EXCEPT
          !.location = Len(c.functions[current_bytecode(c)].constants),
          !.functions[current_bytecode(c)].constants = Append(@, value)]

identifier_constant(c, name) ==
  store_constant(c, OBJECT_VALUE("string", name))

emit_constant(c, value) ==
  emit_with_location(store_constant(c, value), "OP_LOAD_CONSTANT")

emit_default_return(c) == emit_bytes(c, "OP_NIL", "OP_RETURN")

\* a resolve_local that searches from the oldest local to the newest
resolve_local_oldest(compiler, name) ==
  IF \E i \in DOMAIN compiler.locals : compiler.locals[i].name = name
  THEN Min({i \in DOMAIN compiler.locals : compiler.locals[i].name = name}) - 1
  ELSE -1

\* the index of the last local called `name`, or -1
resolve_local(compiler, name) ==
  IF \E i \in DOMAIN compiler.locals : compiler.locals[i].name = name
  THEN (CHOOSE i \in DOMAIN compiler.locals :
          /\ compiler.locals[i].name = name
          /\ \A j \in DOMAIN compiler.locals :
               compiler.locals[j].name = name => j <= i) - 1
  ELSE -1

\* resolve_local reports a local that is read in its own initializer
resolve_local_error(c, compiler, name) ==
  IF /\ resolve_local(compiler, name) # -1
     /\ compiler.locals[resolve_local(compiler, name) + 1].scope_depth = -1
  THEN error(c) ELSE c

UpvalueIndex(upvalues, index, is_local) ==
  {i \in DOMAIN upvalues :
     upvalues[i].index = index /\ upvalues[i].is_local = is_local}

\* the entry added at upvalues[upvalues_count]; nothing returns after the
\* error, so that the entry is added to a full array as well
NewUpvalue(c, level, index, is_local) ==
  [c EXCEPT
     !.location = Len(c.compilers[level].upvalues),
     !.compilers[level].upvalues =
        Append(@, [index |-> index, is_local |-> is_local]),
     !.functions[c.compilers[level].function].upvalues_count = @ + 1]

\* an add_or_get_upvalue that adds an entry without the scan of the list
add_or_get_upvalue_unscanned(c, level, index, is_local) ==
  NewUpvalue(c, level, index % UINT8_COUNT, is_local)

\* on the FunctionCompiler at `level` of the chain; `index` is a uint8_t
add_or_get_upvalue(c, level, index, is_local) ==
  IF UpvalueIndex(c.compilers[level].upvalues, index % UINT8_COUNT,
                  is_local) # {}
  THEN [c EXCEPT !.location =
          Min(UpvalueIndex(c.compilers[level].upvalues, index % UINT8_COUNT,
                           is_local)) - 1]
  ELSE IF Len(c.compilers[level].upvalues) = UINT8_COUNT
  THEN NewUpvalue(error(c), level, index % UINT8_COUNT, is_local)
  ELSE NewUpvalue(c, level, index % UINT8_COUNT, is_local)

\* resolve_upvalue, after the recursive call on the enclosing compiler
ancestor_upvalue(c, level) ==
  IF c.location # -1 THEN add_or_get_upvalue(c, level, c.location, FALSE)
  ELSE c

RECURSIVE resolve_upvalue(_, _, _)
resolve_upvalue(c, name, level) ==
  IF level = 1 THEN [c EXCEPT !.location = -1]
  ELSE IF resolve_local(c.compilers[level - 1], name) # -1
  THEN add_or_get_upvalue(
         [resolve_local_error(c, c.compilers[level - 1], name) EXCEPT
            !.compilers[level - 1].locals[
               resolve_local(c.compilers[level - 1], name) + 1].is_captured =
                 TRUE],
         level, resolve_local(c.compilers[level - 1], name), TRUE)
  ELSE ancestor_upvalue(resolve_upvalue(c, name, level - 1), level)

mark_latest_local_initialized(c) ==
  IF CurrentCompiler(c).scope_depth = 0 THEN c
  ELSE [c EXCEPT !.compilers[Len(c.compilers)].locals[
                     Len(CurrentCompiler(c).locals)].scope_depth =
                   CurrentCompiler(c).scope_depth]

define_variable(c, location) ==
  IF CurrentCompiler(c).scope_depth > 0
  THEN mark_latest_local_initialized(c)
  ELSE emit_bytes(c, "OP_DEFINE_GLOBAL", location)

\* the locals of the scopes that enclose the one at scope_depth
OuterScope(locals, scope_depth) ==
  {i \in DOMAIN locals :
     locals[i].scope_depth # -1 /\ locals[i].scope_depth < scope_depth}

After(outer, i) == {j \in 1..i : \A k \in outer : k < j}

\* the locals from the last one down to the first one of an outer scope
SameScope(locals, i, scope_depth) ==
  After(OuterScope(locals, scope_depth), i)

check_duplicate_declaration(c, name) ==
  IF \E i \in SameScope(CurrentCompiler(c).locals,
                        Len(CurrentCompiler(c).locals),
                        CurrentCompiler(c).scope_depth) :
       CurrentCompiler(c).locals[i].name = name
  THEN error(c) ELSE c

add_local_variable(c, name) ==
  IF Len(CurrentCompiler(c).locals) = UINT8_COUNT THEN error(c)
  ELSE [c EXCEPT !.compilers[Len(c.compilers)].locals =
          Append(@, [name |-> name, scope_depth |-> -1,
                     is_captured |-> FALSE])]

declare_local_variable(c, name) ==
  add_local_variable(check_duplicate_declaration(c, name), name)

declare_variable(c, name) ==
  IF CurrentCompiler(c).scope_depth > 0
  THEN [declare_local_variable(c, name) EXCEPT !.location = 0]
  ELSE identifier_constant(c, name)

(***************************************************************************)
(* The expression parser on tokens (parse_only and the rules table).  A    *)
(* token is [type, number]; c.tokens is the input from parser->            *)
(* current_token on, closed by TOKEN_EOF, and c.previous_token the token   *)
(* last consumed.  The rules of numbers, literals, identifiers, -, +, *,   *)
(* and, or, ".", and "(" are modelled.                                     *)
(***************************************************************************)
PREC_NONE == 0
PREC_ASSIGNMENT == 1
PREC_OR == 2
PREC_AND == 3
PREC_TERM == 6
PREC_FACTOR == 7
PREC_UNARY == 8
PREC_CALL == 9

Token(type) == [type |-> type, number |-> 0]

NumberToken(n) == [type |-> "TOKEN_NUMBER", number |-> n]

IdentifierToken(name) ==
  [type |-> "TOKEN_IDENTIFIER", number |-> 0, name |-> name]

\* the text of an identifier
TokenName(token) ==
  IF token.type = "TOKEN_IDENTIFIER" THEN token.name ELSE ""

\* the prefix, infix and precedence columns of `rules`
get_parse_rule(type) ==
  CASE type = "TOKEN_MINUS" ->
         [prefix |-> "unary", infix |-> "binary", precedence |-> PREC_TERM]
    [] type = "TOKEN_PLUS" ->
         [prefix |-> "NULL", infix |-> "binary", precedence |-> PREC_TERM]
    [] type = "TOKEN_STAR" ->
         [prefix |-> "NULL", infix |-> "binary", precedence |-> PREC_FACTOR]
    [] type = "TOKEN_NUMBER" ->
         [prefix |-> "number", infix |-> "NULL", precedence |-> PREC_NONE]
    [] type \in {"TOKEN_FALSE", "TOKEN_NIL", "TOKEN_TRUE"} ->
         [prefix |-> "literal", infix |-> "NULL", precedence |-> PREC_NONE]
    [] type = "TOKEN_AND" ->
         [prefix |-> "NULL", infix |-> "and_", precedence |-> PREC_AND]
    [] type = "TOKEN_OR" ->
         [prefix |-> "NULL", infix |-> "or_", precedence |-> PREC_OR]
    [] type = "TOKEN_IDENTIFIER" ->
         [prefix |-> "variable", infix |-> "NULL", precedence |-> PREC_NONE]
    [] type = "TOKEN_LEFT_PAREN" ->
         [prefix |-> "grouping", infix |-> "call", precedence |-> PREC_CALL]
    [] type = "TOKEN_DOT" ->
         [prefix |-> "NULL", infix |-> "dot", precedence |-> PREC_CALL]
    [] OTHER ->
         [prefix |-> "NULL", infix |-> "NULL", precedence |-> PREC_NONE]

\* the scanner hands out TOKEN_EOF again at the end of the input
advance(c) ==
  [c EXCEPT !.previous_token = Head(c.tokens),
            !.tokens = IF Len(c.tokens) > 1 THEN Tail(c.tokens) ELSE @]

current_token_precedence(c) == get_parse_rule(Head(c.tokens).type).precedence

check(c, type) == Head(c.tokens).type = type

consume(c, type, message) ==
  IF check(c, type) THEN advance(c) ELSE error_at(c, message)

Count(c) == Len(c.functions[current_bytecode(c)].code)

\* the offset returned is c.location
emit_placeholder_jump(c, instruction) ==
  [emit_byte(emit_byte(emit_byte(c, instruction), 255), 255)
     EXCEPT !.location = Count(c) + 1]

UINT16_MAX == 65535

\* patch_jump: code->count - offset - 2
jump_length_of(count, offset) == count - offset - 2

\* emit_loop: count - loop_start_offset + 2, OP_LOOP emitted
jump_length_of_loop(count, loop_start_offset) ==
  count - loop_start_offset + 2

\* (jump_length >> 8) & 0xff, without the shift
high_bits_unshifted(jump_length) == jump_length % 256

\* (jump_length >> 8) & 0xff
high_bits(jump_length) == (jump_length \div 256) % 256

\* jump_length & 0xff
low_bits(jump_length) == jump_length % 256

\* instructions[offset] is the element offset + 1 of the code
patch_jump(c, offset) ==
  [(IF jump_length_of(Count(c), offset) > UINT16_MAX
      THEN error_at(c, "Too much code to jump over.") ELSE c) EXCEPT
     !.functions[current_bytecode(c)].code[offset + 1] =
        high_bits(jump_length_of(Count(c), offset)),
     !.functions[current_bytecode(c)].code[offset + 2] =
        low_bits(jump_length_of(Count(c), offset))]

number(c) == emit_constant(c, NUMBER_VALUE(c.previous_token.number))

literal(c) ==
  CASE c.previous_token.type = "TOKEN_FALSE" -> emit_byte(c, "OP_FALSE")
    [] c.previous_token.type = "TOKEN_NIL" -> emit_byte(c, "OP_NIL")
    [] c.previous_token.type = "TOKEN_TRUE" -> emit_byte(c, "OP_TRUE")

RECURSIVE parse_only(_, _)

RECURSIVE expression(_, _)

\* the end of named_variable_or_assignment, the variable being resolved;
\* `value` is the assigned expression, <<>> when the variable is read
variable_access(c, get_op, set_op, location, value) ==
  IF value = <<>> THEN emit_bytes(c, get_op, location)
  ELSE emit_bytes(expression(c, value), set_op, location)

\* named_variable_or_assignment after resolve_upvalue
upvalue_or_global(c, name, value) ==
  IF c.location # -1
  THEN variable_access(c, "OP_GET_UPVALUE", "OP_SET_UPVALUE",
                       c.location % UINT8_COUNT, value)
  ELSE variable_access(identifier_constant(c, name), "OP_GET_GLOBAL",
                       "OP_SET_GLOBAL", identifier_constant(c, name).location,
                       value)

named_variable_or_assignment(c, name, value) ==
  IF resolve_local(CurrentCompiler(c), name) # -1
  THEN variable_access(resolve_local_error(c, CurrentCompiler(c), name),
                       "OP_GET_LOCAL", "OP_SET_LOCAL",
                       resolve_local(CurrentCompiler(c), name), value)
  ELSE upvalue_or_global(resolve_upvalue(c, name, Len(c.compilers)), name,
                         value)

\* the rule of an identifier: named_variable_or_assignment with
\* match(TOKEN_EQUAL); the assigned expression is the rest of the input
variable(c) ==
  IF c.can_assign /\ check(c, "TOKEN_EQUAL")
  THEN named_variable_or_assignment(advance(c), TokenName(c.previous_token),
                                    <<"rest">>)
  ELSE named_variable_or_assignment(c, TokenName(c.previous_token), <<>>)

grouping(c) ==
  consume(parse_only(c, PREC_ASSIGNMENT), "TOKEN_RIGHT_PAREN",
          "Expected ')' after expression.")

\* dot after declare_variable, which has consumed the name of the property
property_access(c) ==
  IF c.can_assign /\ check(c, "TOKEN_EQUAL")
  THEN emit_bytes(parse_only(advance(c), PREC_ASSIGNMENT), "OP_SET_PROPERTY",
                  c.location)
  ELSE emit_with_location(c, "OP_GET_PROPERTY")

\* the infix rule of "." on the tokens
dot_tokens(c) ==
  property_access(
    declare_variable(
      consume(c, "TOKEN_IDENTIFIER", "Expected property name after '.'"),
      TokenName(IF check(c, "TOKEN_IDENTIFIER") THEN Head(c.tokens)
                ELSE c.previous_token)))

\* the loop of argument_list on the tokens, before an argument; the count
\* is returned in c.location
RECURSIVE ArgumentsFrom(_, _)
ArgumentsFrom(c, args_count) ==
  LET compiled == parse_only(c, PREC_ASSIGNMENT)
      counted == IF args_count = 255
                 THEN error_at(compiled, "Can't have more than 255 arguments")
                 ELSE compiled
  IN IF check(counted, "TOKEN_COMMA")
     THEN ArgumentsFrom(advance(counted), (args_count + 1) % UINT8_COUNT)
     ELSE [counted EXCEPT !.location = (args_count + 1) % UINT8_COUNT]

\* the infix rule of "(" on the tokens
call_tokens(c) ==
  LET listed == IF check(c, "TOKEN_RIGHT_PAREN")
                THEN [c EXCEPT !.location = 0]
                ELSE ArgumentsFrom(c, 0)
  IN emit_bytes(consume(listed, "TOKEN_RIGHT_PAREN",
                        "Expected ')' after arguments"),
                "OP_CALL", listed.location)

\* the operator is TOKEN_MINUS
unary(c) == emit_byte(parse_only(c, PREC_UNARY), "OP_NEGATE")

BinaryInstruction(operator_type) ==
  CASE operator_type = "TOKEN_PLUS" -> "OP_ADD"
    [] operator_type = "TOKEN_MINUS" -> "OP_SUBTRACT"
    [] operator_type = "TOKEN_STAR" -> "OP_MULTIPLY"

binary_same_precedence(c) ==
  emit_byte(
    parse_only(c, get_parse_rule(c.previous_token.type).precedence),
    BinaryInstruction(c.previous_token.type))

binary(c) ==
  emit_byte(
    parse_only(c, get_parse_rule(c.previous_token.type).precedence + 1),
    BinaryInstruction(c.previous_token.type))

\* `jump` is the compiler after emit_placeholder_jump
AndOperand(jump) ==
  patch_jump(parse_only(emit_byte(jump, "OP_POP"), PREC_AND), jump.location)

and_without_jump(c) == parse_only(emit_byte(c, "OP_POP"), PREC_AND)

and_(c) == AndOperand(emit_placeholder_jump(c, "OP_JUMP_IF_FALSE"))

\* `roe_jump` and `end_jump` are the compilers after each placeholder
OrOperand(roe_jump, end_jump) ==
  patch_jump(
    parse_only(emit_byte(patch_jump(end_jump, roe_jump.location), "OP_POP"),
               PREC_OR),
    end_jump.location)

OrJumps(roe_jump) ==
  OrOperand(roe_jump, emit_placeholder_jump(roe_jump, "OP_JUMP"))

or_(c) == OrJumps(emit_placeholder_jump(c, "OP_JUMP_IF_FALSE"))

parse_prefix(c) ==
  CASE get_parse_rule(c.previous_token.type).prefix = "number" -> number(c)
    [] get_parse_rule(c.previous_token.type).prefix = "literal" -> literal(c)
    [] get_parse_rule(c.previous_token.type).prefix = "unary" -> unary(c)
    [] get_parse_rule(c.previous_token.type).prefix = "variable" ->
         variable(c)
    [] get_parse_rule(c.previous_token.type).prefix = "grouping" ->
         grouping(c)

parse_infix(c) ==
  CASE get_parse_rule(c.previous_token.type).infix = "binary" -> binary(c)
    [] get_parse_rule(c.previous_token.type).infix = "and_" -> and_(c)
    [] get_parse_rule(c.previous_token.type).infix = "or_" -> or_(c)
    [] get_parse_rule(c.previous_token.type).infix = "dot" -> dot_tokens(c)
    [] get_parse_rule(c.previous_token.type).infix = "call" -> call_tokens(c)

\* a parse_only that leaves can_assign as it set it
parse_only_end_unrestored(c, can_assign_upstream) ==
  IF c.can_assign /\ check(c, "TOKEN_EQUAL")
  THEN error_at(advance(c), "Invalid assignment target.")
  ELSE c

\* the end of parse_only, after the loop
parse_only_end(c, can_assign_upstream) ==
  [(IF c.can_assign /\ check(c, "TOKEN_EQUAL")
    THEN error_at(advance(c), "Invalid assignment target.")
    ELSE c)
     EXCEPT !.can_assign = can_assign_upstream]

\* the loop of parse_only over the infix operators; the return inside the
\* loop leaves can_assign as it is
RECURSIVE InfixOperators(_, _, _)
InfixOperators(c, min_precedence, can_assign_upstream) ==
  IF current_token_precedence(c) < min_precedence
  THEN parse_only_end(c, can_assign_upstream)
  ELSE IF get_parse_rule(Head(c.tokens).type).infix = "NULL"
  THEN error_at(advance(c), "Expected valid operator after expression")
  ELSE InfixOperators(parse_infix(advance(c)), min_precedence,
                      can_assign_upstream)

\* `c` has consumed the first token
PrefixParsed(c, min_precedence) ==
  IF get_parse_rule(c.previous_token.type).prefix = "NULL"
  THEN error_at(c, "Unexpected token in primary expression")
  ELSE InfixOperators(
         parse_prefix([c EXCEPT !.can_assign =
                                   min_precedence <= PREC_ASSIGNMENT]),
         min_precedence, c.can_assign)

parse_only(c, min_precedence) == PrefixParsed(advance(c), min_precedence)

RECURSIVE declaration(_, _, _)

\* the arguments are compiled from left to right; a long list is compiled
\* as its first half followed by its second half
RECURSIVE argument_list(_, _)
argument_list(c, arguments) ==
  IF ~InFunction(c) \/ arguments = <<>> THEN c
  ELSE IF Len(arguments) = 1 THEN expression(c, arguments[1])
  ELSE argument_list(
         argument_list(c, SubSeq(arguments, 1, Len(arguments) \div 2)),
         SubSeq(arguments, Len(arguments) \div 2 + 1, Len(arguments)))

\* the infix rule of "(", the callee being compiled; args_count is a uint8_t
call(c, arguments) ==
  emit_bytes(
    IF Len(arguments) > UINT8_MAX THEN error(argument_list(c, arguments))
    ELSE argument_list(c, arguments),
    "OP_CALL", Len(arguments) % UINT8_COUNT)

\* the infix rule of ".", the receiver being compiled
dot(c, name) == emit_with_location(declare_variable(c, name), "OP_GET_PROPERTY")

\* parse_only with the rules table: number, literal, variable, unary,
\* binary, call and dot
expression(c, e) ==
  CASE e[1] = "number" -> emit_constant(c, NUMBER_VALUE(e[2]))
    [] e[1] = "nil" -> emit_byte(c, "OP_NIL")
    [] e[1] = "variable" -> named_variable_or_assignment(c, e[2], <<>>)
    [] e[1] = "assign" -> named_variable_or_assignment(c, e[2], e[3])
    [] e[1] = "unary" -> emit_byte(expression(c, e[2]), "OP_NEGATE")
    [] e[1] = "binary" ->
         emit_byte(expression(expression(c, e[2]), e[3]), "OP_ADD")
    [] e[1] = "call" -> call(expression(c, e[2]), e[3])
    [] e[1] = "dot" -> dot(expression(c, e[2]), e[3])
    [] e[1] = "tokens" -> parse_only([c EXCEPT !.tokens = e[2]],
                                     PREC_ASSIGNMENT)
    [] e[1] = "rest" -> parse_only(c, PREC_ASSIGNMENT)

RECURSIVE pop_all_accessible_locals_in_scope(_, _)
pop_all_accessible_locals_in_scope(c, scope_depth) ==
  IF CurrentCompiler(c).locals = <<>> THEN c
  ELSE IF Top(CurrentCompiler(c).locals).scope_depth < scope_depth THEN c
  ELSE pop_all_accessible_locals_in_scope(
         [emit_byte(c, IF Top(CurrentCompiler(c).locals).is_captured
                       THEN "OP_CLOSE_UPVALUE" ELSE "OP_POP")
            EXCEPT !.compilers[Len(c.compilers)].locals = Pop(@, 1)],
         scope_depth)

begin_scope(c) ==
  [c EXCEPT !.compilers[Len(c.compilers)].scope_depth = @ + 1]

end_scope(c) ==
  [pop_all_accessible_locals_in_scope(c, CurrentCompiler(c).scope_depth)
     EXCEPT !.compilers[Len(c.compilers)].scope_depth = @ - 1]

\* the declarations are compiled from first to last; a long block is
\* compiled as its first half followed by its second half
RECURSIVE block(_, _)
block(c, declarations) ==
  IF ~InFunction(c) \/ declarations = <<>> THEN c
  ELSE IF Len(declarations) = 1 THEN declaration(c, declarations[1], FALSE)
  ELSE block(block(c, SubSeq(declarations, 1, Len(declarations) \div 2)),
             SubSeq(declarations, Len(declarations) \div 2 + 1,
                    Len(declarations)))

\* function__new, and reserve_local_for_callee
function_compiler__init(c, function_type) ==
  [c EXCEPT
     !.functions = Append(@, [arity |-> 0, upvalues_count |-> 0,
                              code |-> <<>>, constants |-> <<>>,
                              name |-> ""]),
     !.compilers = Append(@, [function |-> Len(c.functions) + 1,
                              function_type |-> function_type,
                              locals |-> <<[name |-> "", scope_depth |-> 0,
                                            is_captured |-> FALSE]>>,
                              scope_depth |-> 0,
                              upvalues |-> <<>>])]

start_function_compilation(c, function_type, name) ==
  [function_compiler__init(c, function_type) EXCEPT
     !.functions[Len(c.functions) + 1].name = name]

RECURSIVE function_parameters(_, _)
function_parameters(c, parameters) ==
  IF parameters = <<>> THEN c
  ELSE function_parameters(
         define_variable(
           declare_variable(
             [c EXCEPT !.functions[current_bytecode(c)].arity = @ + 1],
             Head(parameters)),
           0),
         Tail(parameters))

RECURSIVE emit_upvalues(_, _)
emit_upvalues(c, upvalues) ==
  IF upvalues = <<>> THEN c
  ELSE emit_upvalues(
         emit_bytes(c, IF Head(upvalues).is_local THEN 1 ELSE 0,
                    Head(upvalues).index),
         Tail(upvalues))

\* finish_function_compilation, then the end of function(): the closure
\* instruction of the function just compiled, in the enclosing function
finish_function_compilation(c) ==
  [emit_default_return(c) EXCEPT !.compilers = Pop(@, 1)]

new_closure(c, compiled) ==
  emit_upvalues(
    emit_with_location(
      store_constant(c, OBJECT_VALUE("function", compiled.function)),
      "OP_NEW_CLOSURE"),
    compiled.upvalues)

\* the end of function(), the body being compiled
end_function(c) ==
  new_closure(finish_function_compilation(c), CurrentCompiler(c))

function(c, name, parameters, body) ==
  end_function(
    block(function_parameters(
            begin_scope(start_function_compilation(c, "TYPE_FUNCTION", name)),
            parameters),
          body))

\* var_declaration after declare_variable
initialized_variable(c, initializer) ==
  define_variable(expression(c, initializer), c.location)

var_declaration(c, s) == initialized_variable(declare_variable(c, s[2]), s[3])

\* fun_declaration after declare_variable
declared_function(c, s) ==
  define_variable(function(mark_latest_local_initialized(c), s[2], s[3], s[4]),
                  c.location)

fun_declaration(c, s) == declared_function(declare_variable(c, s[2]), s)

\* <<"return", <<>>>> is `return;`
return_value(c, s) ==
  IF s[2] = <<>> THEN emit_default_return(c)
  ELSE emit_byte(expression(c, s[2]), "OP_RETURN")

return_statement(c, s) ==
  IF CurrentCompiler(c).function_type = "TYPE_SCRIPT"
  THEN return_value(error(c), s)
  ELSE return_value(c, s)

\* vm->execution_mode is VM_REPL_MODE; `eof` is check(TOKEN_EOF, parser)
expression_statement(c, s, eof) ==
  emit_byte(expression(c, s[2]), IF eof THEN "OP_PRINTLN" ELSE "OP_POP")

statement(c, s, eof) ==
  CASE s[1] = "return" -> return_statement(c, s)
    [] s[1] = "block" -> end_scope(block(begin_scope(c), s[2]))
    [] OTHER -> expression_statement(c, s, eof)

\* the panic mode ends with the declaration
declaration(c, s, eof) ==
  synchronize(CASE s[1] = "fun" -> fun_declaration(c, s)
                [] s[1] = "var" -> var_declaration(c, s)
                [] OTHER -> statement(c, s, eof))

\* the end of a top-level declaration, noted in `ends`
declaration_end(c) ==
  [c EXCEPT !.ends = @ \cup {Len(c.functions[current_bytecode(c)].code)}]

\* the declarations of a part of the program, from first to last, a long
\* part as its first half followed by its second half; `eof` says that the
\* program ends with this part
RECURSIVE DeclarationsOf(_, _, _)
DeclarationsOf(c, part, eof) ==
  IF ~InFunction(c) \/ part = <<>> THEN c
  ELSE IF Len(part) = 1 THEN declaration_end(declaration(c, part[1], eof))
  ELSE DeclarationsOf(
         DeclarationsOf(c, SubSeq(part, 1, Len(part) \div 2), FALSE),
         SubSeq(part, Len(part) \div 2 + 1, Len(part)), eof)

\* the loop of compiler__compile
declarations(c, program) == DeclarationsOf(c, program, TRUE)

\* the compiler when it returns: the script is functions[Len(functions) + 1]
\* and vm__interpret gets NULL if had_error
compiler__compile(functions, program) ==
  emit_default_return(
    declarations(
      function_compiler__init(
        [functions |-> functions, compilers |-> <<>>, had_error |-> FALSE,
         panic_mode |-> FALSE,
         messages |-> {}, can_assign |-> FALSE,
         location |-> 0, ends |-> {}, tokens |-> <<Token("TOKEN_EOF")>>,
         previous_token |-> Token("TOKEN_BOF")],
        "TYPE_SCRIPT"),
      program))

(***************************************************************************)
(* The virtual machine.  A stack slot is designated by its index in        *)
(* value_stack, from 1; stack_free_slot is the number of slots in use and  *)
(* value_stack keeps what was last written above it, as the C array does.  *)
(* Objects are designated by their index in the sequence of their type.    *)
(*   frames      [closure, ip, slots]: ip is the index of the next byte in *)
(*               the code, slots the index of slot 0 of the frame          *)
(*   upvalues    [location, closed, next]: location is 0 once the upvalue  *)
(*               is closed (it then points to `closed`)                    *)
(*   running     run() is executing; result is what vm__interpret returned *)
(* Kept for the properties only:                                           *)
(*   in an upvalue, `variable` is the slot of the captured local, `live`   *)
(*   whether that local is still on the stack and `written` the last value *)
(*   the program gave it                                                   *)
(*   ends        the ip values of the script at which a top-level          *)
(*               declaration has just ended                                *)
(*   error       "runtime" or "native" once the running program raised a   *)
(*               runtime error; continued: an instruction ran after it     *)
(*   captured    the latest capture_upvalue: the upvalues that were open   *)
(*               at the slot, and the one returned                         *)
(*   upvalue_read  the latest OP_GET_UPVALUE                               *)
(***************************************************************************)
VARIABLES vm, lines_left

vm_vars == <<vm, lines_left>>

\* the natives of the list class, with their arity (define_list_methods)
ListMethods == [length |-> 0, append |-> 1, at |-> 1]

top_frame(m) == m.frames[Len(m.frames)]

FrameFunction(m) == m.functions[m.closures[top_frame(m).closure].function]

\* READ_BYTE, READ_CONSTANT and READ_STRING, `n` bytes after the opcode
READ_BYTE(m, n) == FrameFunction(m).code[top_frame(m).ip + n]

READ_CONSTANT(m, n) == FrameFunction(m).constants[READ_BYTE(m, n) + 1]

\* the instruction pointer goes past the opcode and its n operands
Fetched(m, n) ==
  [m EXCEPT !.frames[Len(m.frames)].ip = @ + n + 1,
            !.continued = @ \/ m.error # "none"]

\* the captured locals in the slots that are given up
EndLifetimes(m) ==
  [m EXCEPT !.upvalues =
     [i \in DOMAIN m.upvalues |->
        IF m.upvalues[i].live /\ m.upvalues[i].variable > m.stack_free_slot
        THEN [m.upvalues[i] EXCEPT !.live = FALSE]
        ELSE m.upvalues[i]]]

\* *slot = value
Stored(m, slot, value) ==
  [m EXCEPT !.value_stack =
     IF slot <= Len(m.value_stack) THEN [@ EXCEPT ![slot] = value]
     ELSE Append(@, value)]

FRAMES_MAX == 64

STACK_MAX == FRAMES_MAX * UINT8_COUNT

\* push_value when stack_free_slot is the end of value_stack: the value is
\* written past the array, over the members of the VM that follow it, and
\* what the process does from there on is undefined; the run is followed no
\* further
OutOfBounds(m) ==
  [m EXCEPT !.stack_free_slot = @ + 1,
            !.running = FALSE,
            !.result = "undefined"]

push_value(m, value) ==
  IF m.stack_free_slot >= STACK_MAX THEN OutOfBounds(m)
  ELSE [Stored(m, m.stack_free_slot + 1, value) EXCEPT
          !.stack_free_slot = @ + 1]

peek_value(m, distance) == m.value_stack[m.stack_free_slot - distance]

\* pop_value n times; the values popped are read with peek_value before
pop_value(m, n) == EndLifetimes([m EXCEPT !.stack_free_slot = @ - n])

\* a reset_for_execution that leaves the list of open upvalues as it is
reset_for_execution_keeping_upvalues(m) ==
  EndLifetimes([m EXCEPT !.stack_free_slot = 0, !.frames = <<>>])

reset_for_execution(m) ==
  EndLifetimes([m EXCEPT !.stack_free_slot = 0,
                         !.frames = <<>>,
                         !.open_upvalues = NULL])

\* runtime_error, and the `return INTERPRET_RUNTIME_ERROR` (or the `return
\* false` that leads to it) that follows every call of it
runtime_error(m) ==
  [reset_for_execution(m) EXCEPT !.running = FALSE,
                                 !.result = "INTERPRET_RUNTIME_ERROR",
                                 !.error = "runtime"]

\* The signature of a callable is [arity, parameters]; `parameters` is the
\* pointer to the array of parameters, [null, at]: `at` is the array, of
\* [default_value], and default_value is NULL or the address of a value.
\* function__new leaves signature.parameters NULL
CompiledSignature(arity) ==
  [arity |-> arity, parameters |-> [null |-> TRUE, at |-> <<>>]]

\* the signature of a native function none of whose parameters has a default
NativeSignature(arity) ==
  [arity |-> arity,
   parameters |-> [null |-> FALSE,
                   at |-> [i \in 1..arity |-> [default_value |-> NULL]]]]

\* the loop of compute_min_arity
RECURSIVE MinArityFrom(_, _)
MinArityFrom(parameters, min_arity) ==
  IF min_arity > 0 /\ parameters[min_arity].default_value # NULL
  THEN MinArityFrom(parameters, min_arity - 1)
  ELSE min_arity

\* a compute_min_arity that does not look at the defaults
compute_min_arity_no_defaults(callable) == callable.arity

compute_min_arity(callable) ==
  IF callable.parameters.null THEN callable.arity
  ELSE MinArityFrom(callable.parameters.at, callable.arity)

\* the first test of is_valid_call: the call gets an arity error
ArityRejected(callable, args_count) ==
  args_count < compute_min_arity(callable) \/ args_count > callable.arity

is_valid_call_no_frames_limit(m, callable, args_count) ==
  ~ArityRejected(callable, args_count)

is_valid_call(m, callable, args_count) ==
  ~ArityRejected(callable, args_count) /\ Len(m.frames) # FRAMES_MAX

\* the runtime_error that is_valid_call raises before it returns false; the
\* arity message is abridged
InvalidCall(m, callable, args_count) ==
  [runtime_error(m) EXCEPT
     !.message = IF ArityRejected(callable, args_count)
                 THEN "Expected arguments" ELSE "Stack overflow!"]

push_new_frame(m, closure, args_count) ==
  [m EXCEPT !.frames = Append(@, [closure |-> closure, ip |-> 1,
                                  slots |-> m.stack_free_slot - args_count])]

call_closure(m, closure, args_count) ==
  IF is_valid_call(
       m, CompiledSignature(m.functions[m.closures[closure].function].arity),
       args_count)
  THEN push_new_frame(m, closure, args_count)
  ELSE InvalidCall(
         m, CompiledSignature(m.functions[m.closures[closure].function].arity),
         args_count)

closure__new(m, fn) ==
  [m EXCEPT !.closures = Append(@, [function |-> fn, upvalues |-> <<>>])]

AS_INT(value) == value.v

normalize_index(index, length) == IF index < 0 THEN length + index ELSE index

index__normalize_index(index, length) ==
  /\ length # 0
  /\ normalize_index(index, length) >= 0
  /\ normalize_index(index, length) < length

\* the value a native method returns; args[1] is `this`
NativeResult(m, native, args) ==
  CASE native = "length" -> NUMBER_VALUE(Len(m.lists[args[1].v]))
    [] native = "append" -> NIL_VALUE
    [] native = "at" ->
         IF index__normalize_index(AS_INT(args[2]), Len(m.lists[args[1].v]))
         THEN m.lists[args[1].v][
                normalize_index(AS_INT(args[2]), Len(m.lists[args[1].v])) + 1]
         ELSE ERROR_VALUE

\* what a native method does to the VM: lox_list__append appends, and a
\* failed index__normalize_index has printed an "Index Error"
NativeEffect(m, native, args) ==
  CASE native = "append" ->
         [m EXCEPT !.lists[args[1].v] = Append(@, args[2])]
    [] native = "at"
         /\ ~index__normalize_index(AS_INT(args[2]), Len(m.lists[args[1].v]))
         -> [m EXCEPT !.error = "native"]
    [] OTHER -> m

\* native->function(args_count, stack_free_slot - args_count - 1, vm) for a
\* method, then the result takes the place of `this` and the arguments
call_native(m, native, args_count) ==
  IF is_valid_call(m, NativeSignature(ListMethods[native]), args_count)
  THEN push_value(
         pop_value(
           NativeEffect(m, native,
                        SubSeq(m.value_stack, m.stack_free_slot - args_count,
                               m.stack_free_slot)),
           args_count + 1),
         NativeResult(m, native,
                      SubSeq(m.value_stack, m.stack_free_slot - args_count,
                             m.stack_free_slot)))
  ELSE InvalidCall(m, NativeSignature(ListMethods[native]), args_count)

\* lox_list__new, through _class->new_instance
lox_list__new(m) == [m EXCEPT !.lists = Append(@, <<>>)]

RECURSIVE call_value(_, _, _)
call_value(m, callee, args_count) ==
  CASE callee.t = "bound_method" ->
         call_value(
           Stored(m, m.stack_free_slot - args_count,
                  m.bound_methods[callee.v].instance),
           m.bound_methods[callee.v].method, args_count)
    [] callee.t = "class" ->
         \* the list class has no initializer
         IF args_count # 0
         THEN runtime_error(lox_list__new(m))
         ELSE Stored(lox_list__new(m), m.stack_free_slot - args_count,
                     OBJECT_VALUE("list", Len(m.lists) + 1))
    [] callee.t = "closure" -> call_closure(m, callee.v, args_count)
    [] callee.t = "native" -> call_native(m, callee.v, args_count)
    [] OTHER -> runtime_error(m)

\* bind_method on the list class (the only class of the model); the
\* instance is on top of the stack
bind_method(m, name) ==
  IF name \in DOMAIN ListMethods
  THEN push_value(
         pop_value([m EXCEPT !.bound_methods =
                      Append(@, [instance |-> peek_value(m, 0),
                                 method |-> OBJECT_VALUE("native", name)])],
                   1),
         OBJECT_VALUE("bound_method", Len(m.bound_methods) + 1))
  ELSE runtime_error(m)

\* the loop of capture_upvalue: where the walk of the list stops
RECURSIVE CaptureWalk(_, _, _, _)
CaptureWalk(m, previous_upvalue, upvalue, local) ==
  IF upvalue # NULL /\ m.upvalues[upvalue].location > local
  THEN CaptureWalk(m, upvalue, m.upvalues[upvalue].next, local)
  ELSE [previous_upvalue |-> previous_upvalue, upvalue |-> upvalue]

\* the upvalues of the open list, from its head
RECURSIVE OpenList(_, _)
OpenList(m, upvalue) ==
  IF upvalue = NULL THEN <<>>
  ELSE <<upvalue>> \o OpenList(m, m.upvalues[upvalue].next)

OpenAt(m, local) ==
  {u \in Range(OpenList(m, m.open_upvalues)) : m.upvalues[u].location = local}

\* upvalue__new and its insertion after previous_upvalue
InsertUpvalue(m, local, walk) ==
  [m EXCEPT
     !.upvalues =
        Append(IF walk.previous_upvalue = NULL THEN @
               ELSE [@ EXCEPT ![walk.previous_upvalue].next =
                                 Len(m.upvalues) + 1],
               [location |-> local, closed |-> NIL_VALUE,
                next |-> walk.upvalue, variable |-> local, live |-> TRUE,
                written |-> m.value_stack[local]]),
     !.open_upvalues =
        IF walk.previous_upvalue = NULL THEN Len(m.upvalues) + 1 ELSE @,
     !.captured = [open_before |-> OpenAt(m, local),
                   returned |-> Len(m.upvalues) + 1]]

\* a capture_upvalue that allocates an upvalue at every call
capture_upvalue_always_new(m, local, walk) == InsertUpvalue(m, local, walk)

\* capture_upvalue after the loop
capture_upvalue_after(m, local, walk) ==
  IF walk.upvalue # NULL /\ m.upvalues[walk.upvalue].location = local
  THEN [m EXCEPT !.captured = [open_before |-> OpenAt(m, local),
                               returned |-> walk.upvalue]]
  ELSE InsertUpvalue(m, local, walk)

\* a capture_upvalue that looks at the head of the open list only
capture_upvalue_without_walk(m, local) ==
  capture_upvalue_after(m, local, [previous_upvalue |-> NULL,
                                   upvalue |-> m.open_upvalues])

\* the upvalue returned is m.captured.returned
capture_upvalue(m, local) ==
  capture_upvalue_after(m, local,
                        CaptureWalk(m, NULL, m.open_upvalues, local))

\* a close_upvalues that leaves the upvalue of `last` open
RECURSIVE close_upvalues_above(_, _)
close_upvalues_above(m, last) ==
  IF m.open_upvalues # NULL /\ m.upvalues[m.open_upvalues].location > last
  THEN close_upvalues_above(
         [m EXCEPT
            !.upvalues[m.open_upvalues].closed =
               m.value_stack[m.upvalues[m.open_upvalues].location],
            !.upvalues[m.open_upvalues].location = 0,
            !.open_upvalues = m.upvalues[m.open_upvalues].next],
         last)
  ELSE m

\* an upvalue whose location is 0 is closed: its location is &upvalue->closed
RECURSIVE close_upvalues(_, _)
close_upvalues(m, last) ==
  IF m.open_upvalues # NULL /\ m.upvalues[m.open_upvalues].location >= last
  THEN close_upvalues(
         [m EXCEPT
            !.upvalues[m.open_upvalues].closed =
               m.value_stack[m.upvalues[m.open_upvalues].location],
            !.upvalues[m.open_upvalues].location = 0,
            !.open_upvalues = m.upvalues[m.open_upvalues].next],
         last)
  ELSE m

\* *upvalue->location
UpvalueValue(m, upvalue) ==
  IF m.upvalues[upvalue].location = 0 THEN m.upvalues[upvalue].closed
  ELSE m.value_stack[m.upvalues[upvalue].location]

\* closure->upvalues[i] = capture_upvalue(...)
AddCaptured(m, closure) ==
  [m EXCEPT !.closures[closure].upvalues = Append(@, m.captured.returned)]

\* the loop of OP_NEW_CLOSURE from upvalue i on; the pair (is_local, index)
\* of upvalue i is in the bytes 2i and 2i + 1 after the opcode
RECURSIVE NewClosureUpvalues(_, _, _, _)
NewClosureUpvalues(m, closure, i, upvalues_count) ==
  IF i > upvalues_count THEN m
  ELSE IF READ_BYTE(m, 2 * i) = 1
  THEN NewClosureUpvalues(
         AddCaptured(capture_upvalue(m, top_frame(m).slots
                                          + READ_BYTE(m, 2 * i + 1)),
                     closure),
         closure, i + 1, upvalues_count)
  ELSE NewClosureUpvalues(
         [m EXCEPT !.closures[closure].upvalues =
            Append(@, m.closures[top_frame(m).closure].upvalues[
                        READ_BYTE(m, 2 * i + 1) + 1])],
         closure, i + 1, upvalues_count)

\* The lines given to the REPL, each one a program:
\*  1  var length; { var l = list(); l.length(); }
\*  2  var l = list(); l.append(1); l.at(5); var after = 1;
\*  3  fun make() { var x = 1; fun get() { return x; } x = 2; return get; }
\*     var g = make(); g();
\*  4  var g; { var a = 1; fun f() { return a; } g = f; a = 2; -nil; }
\*  5  g();
\*  6  { var a = 1; var b = 2; fun get() { return a + b; }
\*     fun set() { b = 3; } set(); get(); }
\*  7  fun out() { var x = 1; fun mid() { fun in() { return x; } return in; }
\*     return mid(); } var g = out();
\*  8  list(1);
\*  9  var x = 1; return 1;
Programs ==
  { << <<"var", "length", <<"nil">>>>,
       <<"block",
         << <<"var", "l", <<"call", <<"variable", "list">>, <<>>>>>>,
            <<"expr", <<"call", <<"dot", <<"variable", "l">>, "length">>,
                        <<>>>>>> >> >> >>,
    << <<"var", "l", <<"call", <<"variable", "list">>, <<>>>>>>,
       <<"expr", <<"call", <<"dot", <<"variable", "l">>, "append">>,
                   << <<"number", 1>> >> >>>>,
       <<"expr", <<"call", <<"dot", <<"variable", "l">>, "at">>,
                   << <<"number", 5>> >> >>>>,
       <<"var", "after", <<"number", 1>>>> >>,
    << <<"fun", "make", <<>>,
         << <<"var", "x", <<"number", 1>>>>,
            <<"fun", "get", <<>>, << <<"return", <<"variable", "x">>>> >> >>,
            <<"expr", <<"assign", "x", <<"number", 2>>>>>>,
            <<"return", <<"variable", "get">>>> >> >>,
       <<"var", "g", <<"call", <<"variable", "make">>, <<>>>>>>,
       <<"expr", <<"call", <<"variable", "g">>, <<>>>>>> >>,
    << <<"var", "g", <<"nil">>>>,
       <<"block",
         << <<"var", "a", <<"number", 1>>>>,
            <<"fun", "f", <<>>, << <<"return", <<"variable", "a">>>> >> >>,
            <<"expr", <<"assign", "g", <<"variable", "f">>>>>>,
            <<"expr", <<"assign", "a", <<"number", 2>>>>>>,
            <<"expr", <<"unary", <<"nil">>>>>> >> >> >>,
    << <<"expr", <<"call", <<"variable", "g">>, <<>>>>>> >>,
    << <<"block",
         << <<"var", "a", <<"number", 1>>>>,
            <<"var", "b", <<"number", 2>>>>,
            <<"fun", "get", <<>>,
              << <<"return", <<"binary", <<"variable", "a">>,
                               <<"variable", "b">>>>>> >> >>,
            <<"fun", "set", <<>>,
              << <<"expr", <<"assign", "b", <<"number", 3>>>>>> >> >>,
            <<"expr", <<"call", <<"variable", "set">>, <<>>>>>>,
            <<"expr", <<"call", <<"variable", "get">>, <<>>>>>> >> >> >>,
    << <<"fun", "out", <<>>,
         << <<"var", "x", <<"number", 1>>>>,
            <<"fun", "mid", <<>>,
              << <<"fun", "in", <<>>,
                   << <<"return", <<"variable", "x">>>> >> >>,
                 <<"return", <<"variable", "in">>>> >> >>,
            <<"return", <<"call", <<"variable", "mid">>, <<>>>>>> >> >>,
       <<"var", "g", <<"call", <<"variable", "out">>, <<>>>>>> >>,
    << <<"expr", <<"call", <<"variable", "list">>, << <<"number", 1>> >> >>>> >>,
    << <<"var", "x", <<"number", 1>>>>, <<"return", <<"number", 1>>>> >> }

\* the VM that vm__init leaves, with the list class of init_stdlib
vm__init ==
  [value_stack |-> <<>>, stack_free_slot |-> 0, frames |-> <<>>,
   open_upvalues |-> NULL, functions |-> <<>>, closures |-> <<>>,
   upvalues |-> <<>>, lists |-> <<>>, bound_methods |-> <<>>,
   global_vars |-> [list |-> OBJECT_VALUE("class", 1)],
   running |-> FALSE, result |-> "none", ends |-> {},
   error |-> "none", message |-> "none", continued |-> FALSE,
   captured |-> [open_before |-> {}, returned |-> NULL],
   upvalue_read |-> [done |-> FALSE, value |-> NIL_VALUE,
                     written |-> NIL_VALUE, closed |-> FALSE]]

VMInit ==
  /\ vm = vm__init
  /\ lines_left = MaxLines

\* the compiler wrote an upvalue past the end of the upvalues array of a
\* FunctionCompiler
Overrun(c) ==
  \E f \in DOMAIN c.functions : c.functions[f].upvalues_count > UINT8_COUNT

interpret_compiled_despite_errors(m, c) ==
  [call_closure(
      push_value(
        pop_value(
          closure__new(
            push_value([m EXCEPT !.functions = c.functions],
                       OBJECT_VALUE("function", Len(m.functions) + 1)),
            Len(m.functions) + 1),
          1),
        OBJECT_VALUE("closure", Len(m.closures) + 1)),
      Len(m.closures) + 1, 0)
    EXCEPT !.running = TRUE, !.ends = {e + 1 : e \in c.ends}]

\* vm__interpret after compiler__compile: INTERPRET_COMPILE_ERROR, or the
\* script closure is pushed and called, and run() starts; what follows a
\* write past the end of an upvalues array is not defined
interpret_compiled(m, c) ==
  IF Overrun(c)
  THEN [m EXCEPT !.functions = c.functions, !.result = "undefined"]
  ELSE IF c.had_error
  THEN [m EXCEPT !.functions = c.functions,
                 !.result = "INTERPRET_COMPILE_ERROR"]
  ELSE [call_closure(
          push_value(
            pop_value(
              closure__new(
                push_value([m EXCEPT !.functions = c.functions],
                           OBJECT_VALUE("function", Len(m.functions) + 1)),
                Len(m.functions) + 1),
              1),
            OBJECT_VALUE("closure", Len(m.closures) + 1)),
          Len(m.closures) + 1, 0)
        EXCEPT !.running = TRUE, !.ends = {e + 1 : e \in c.ends}]

\* the VM when vm__interpret has compiled the program and called the script
Interpreted(m, program) ==
  interpret_compiled(
    [reset_for_execution(m) EXCEPT
       !.result = "none", !.error = "none", !.message = "none",
       !.continued = FALSE,
       !.ends = {}, !.upvalue_read.done = FALSE,
       !.captured = [open_before |-> {}, returned |-> NULL]],
    compiler__compile(m.functions, program))

\* the REPL reads a line and calls vm__interpret
vm__interpret ==
  /\ ~vm.running
  /\ vm.result \notin {"aborted", "crashed", "undefined"}
  /\ lines_left > 0
  /\ \E program \in Programs : vm' = Interpreted(vm, program)
  /\ lines_left' = lines_left - 1

\* run() is about to execute the instruction `op`
Executing(op) ==
  /\ vm.running
  /\ READ_BYTE(vm, 0) = op
  /\ UNCHANGED lines_left

OP_LOAD_CONSTANT ==
  /\ Executing("OP_LOAD_CONSTANT")
  /\ vm' = push_value(Fetched(vm, 1), READ_CONSTANT(vm, 1))

OP_NIL ==
  /\ Executing("OP_NIL")
  /\ vm' = push_value(Fetched(vm, 0), NIL_VALUE)

OP_POP ==
  /\ Executing("OP_POP")
  /\ vm' = pop_value(Fetched(vm, 0), 1)

OP_GET_LOCAL ==
  /\ Executing("OP_GET_LOCAL")
  /\ vm' = push_value(Fetched(vm, 1),
                      vm.value_stack[top_frame(vm).slots + READ_BYTE(vm, 1)])

\* frame->slots[slot] = value; the value is the one the captured local of
\* that slot now has
SetLocal(m, slot, value) ==
  [Stored(m, slot, value) EXCEPT !.upvalues =
     [i \in DOMAIN m.upvalues |->
        IF m.upvalues[i].live /\ m.upvalues[i].variable = slot
        THEN [m.upvalues[i] EXCEPT !.written = value]
        ELSE m.upvalues[i]]]

OP_SET_LOCAL ==
  /\ Executing("OP_SET_LOCAL")
  /\ vm' = SetLocal(Fetched(vm, 1), top_frame(vm).slots + READ_BYTE(vm, 1),
                    peek_value(vm, 0))

\* frame->closure->upvalues[slot]
FrameUpvalue(m, slot) == m.closures[top_frame(m).closure].upvalues[slot + 1]

GetUpvalue(m, upvalue) ==
  [push_value(m, UpvalueValue(m, upvalue)) EXCEPT
     !.upvalue_read = [done |-> TRUE, value |-> UpvalueValue(m, upvalue),
                       written |-> m.upvalues[upvalue].written,
                       closed |-> m.upvalues[upvalue].location = 0]]

OP_GET_UPVALUE ==
  /\ Executing("OP_GET_UPVALUE")
  /\ vm' = GetUpvalue(Fetched(vm, 1), FrameUpvalue(vm, READ_BYTE(vm, 1)))

\* *upvalue->location = value
SetUpvalue(m, upvalue, value) ==
  IF m.upvalues[upvalue].location = 0
  THEN [m EXCEPT !.upvalues[upvalue].closed = value,
                 !.upvalues[upvalue].written = value]
  ELSE [Stored(m, m.upvalues[upvalue].location, value) EXCEPT
          !.upvalues[upvalue].written = value]

OP_SET_UPVALUE ==
  /\ Executing("OP_SET_UPVALUE")
  /\ vm' = SetUpvalue(Fetched(vm, 1), FrameUpvalue(vm, READ_BYTE(vm, 1)),
                      peek_value(vm, 0))

\* table__set(&vm->global_vars, name, value)
GlobalSet(m, name, value) ==
  [m EXCEPT !.global_vars =
     [n \in DOMAIN m.global_vars \cup {name} |->
        IF n = name THEN value ELSE m.global_vars[n]]]

OP_GET_GLOBAL ==
  /\ Executing("OP_GET_GLOBAL")
  /\ vm' = IF READ_CONSTANT(vm, 1).v \in DOMAIN vm.global_vars
           THEN push_value(Fetched(vm, 1),
                           vm.global_vars[READ_CONSTANT(vm, 1).v])
           ELSE runtime_error(Fetched(vm, 1))

OP_DEFINE_GLOBAL ==
  /\ Executing("OP_DEFINE_GLOBAL")
  /\ vm' = pop_value(GlobalSet(Fetched(vm, 1), READ_CONSTANT(vm, 1).v,
                               peek_value(vm, 0)),
                     1)

\* a new key is deleted again before the error is raised
OP_SET_GLOBAL ==
  /\ Executing("OP_SET_GLOBAL")
  /\ vm' = IF READ_CONSTANT(vm, 1).v \in DOMAIN vm.global_vars
           THEN GlobalSet(Fetched(vm, 1), READ_CONSTANT(vm, 1).v,
                          peek_value(vm, 0))
           ELSE runtime_error(Fetched(vm, 1))

\* READ_STRING reads a string: the operand designates a constant, and the
\* constant is an ObjectString
ReadsString(m, n) ==
  /\ READ_BYTE(m, n) < Len(FrameFunction(m).constants)
  /\ READ_CONSTANT(m, n).t = "string"

\* the process is killed
Crashed(m) == [m EXCEPT !.running = FALSE, !.result = "crashed"]

\* The receiver is never a string here, and a list has no fields.  When
\* READ_STRING reads something else than a string the behaviour is
\* undefined: the process is killed, or the name read is no property.
OP_GET_PROPERTY ==
  /\ Executing("OP_GET_PROPERTY")
  /\ vm' \in IF ~ReadsString(vm, 1)
             THEN {Crashed(Fetched(vm, 1)), runtime_error(Fetched(vm, 1))}
             ELSE IF peek_value(vm, 0).t # "list"
             THEN {runtime_error(Fetched(vm, 1))}
             ELSE {bind_method(Fetched(vm, 1), READ_CONSTANT(vm, 1).v)}

IS_NUMBER(value) == value.t = "number"

\* no value of the model is a string
OP_ADD ==
  /\ Executing("OP_ADD")
  /\ vm' = IF IS_NUMBER(peek_value(vm, 0)) /\ IS_NUMBER(peek_value(vm, 1))
           THEN push_value(pop_value(Fetched(vm, 0), 2),
                           NUMBER_VALUE(peek_value(vm, 1).v
                                          + peek_value(vm, 0).v))
           ELSE runtime_error(Fetched(vm, 0))

OP_NEGATE ==
  /\ Executing("OP_NEGATE")
  /\ vm' = IF IS_NUMBER(peek_value(vm, 0))
           THEN push_value(pop_value(Fetched(vm, 0), 1),
                           NUMBER_VALUE(-peek_value(vm, 0).v))
           ELSE runtime_error(Fetched(vm, 0))

\* BINARY_OP(NUMBER_VALUE, op): `result` is a op b
BINARY_OP(m, result) ==
  IF IS_NUMBER(peek_value(m, 0)) /\ IS_NUMBER(peek_value(m, 1))
  THEN push_value(pop_value(m, 2), NUMBER_VALUE(result))
  ELSE runtime_error(m)

OP_SUBTRACT ==
  /\ Executing("OP_SUBTRACT")
  /\ vm' = BINARY_OP(Fetched(vm, 0), peek_value(vm, 1).v - peek_value(vm, 0).v)

OP_MULTIPLY ==
  /\ Executing("OP_MULTIPLY")
  /\ vm' = BINARY_OP(Fetched(vm, 0), peek_value(vm, 1).v * peek_value(vm, 0).v)

OP_TRUE ==
  /\ Executing("OP_TRUE")
  /\ vm' = push_value(Fetched(vm, 0), BOOL_VALUE(TRUE))

OP_FALSE ==
  /\ Executing("OP_FALSE")
  /\ vm' = push_value(Fetched(vm, 0), BOOL_VALUE(FALSE))

is_falsey(value) ==
  value.t = "nil" \/ (value.t = "bool" /\ value.v = 0)

\* (instruction_pointer[-2] << 8) | instruction_pointer[-1], as uint16_t
SHORT(high, low) == (high * 256 + low) % 65536

READ_SHORT(m) == SHORT(READ_BYTE(m, 1), READ_BYTE(m, 2))

Jumped(m, jump_length) ==
  [m EXCEPT !.frames[Len(m.frames)].ip = @ + jump_length]

OP_JUMP_IF_FALSE ==
  /\ Executing("OP_JUMP_IF_FALSE")
  /\ vm' = IF is_falsey(peek_value(vm, 0))
           THEN Jumped(Fetched(vm, 2), READ_SHORT(vm))
           ELSE Fetched(vm, 2)

OP_JUMP ==
  /\ Executing("OP_JUMP")
  /\ vm' = Jumped(Fetched(vm, 2), READ_SHORT(vm))

OP_PRINTLN ==
  /\ Executing("OP_PRINTLN")
  /\ vm' = pop_value(Fetched(vm, 0), 1)

OP_CALL ==
  /\ Executing("OP_CALL")
  /\ vm' = call_value(Fetched(vm, 1), peek_value(vm, READ_BYTE(vm, 1)),
                      READ_BYTE(vm, 1))

\* the instruction pointer moves once the upvalue operands are read
OP_NEW_CLOSURE ==
  /\ Executing("OP_NEW_CLOSURE")
  /\ vm' = Fetched(
             NewClosureUpvalues(
               push_value(closure__new(vm, READ_CONSTANT(vm, 1).v),
                          OBJECT_VALUE("closure", Len(vm.closures) + 1)),
               Len(vm.closures) + 1, 1,
               vm.functions[READ_CONSTANT(vm, 1).v].upvalues_count),
             1 + 2 * vm.functions[READ_CONSTANT(vm, 1).v].upvalues_count)

OP_CLOSE_UPVALUE ==
  /\ Executing("OP_CLOSE_UPVALUE")
  /\ vm' = pop_value(close_upvalues(Fetched(vm, 0), vm.stack_free_slot), 1)

\* OP_RETURN in the script, after pop_frame: the sentinel is popped; if the
\* assertion fails the process aborts, unless it is compiled with NDEBUG
ScriptReturn(m) ==
  IF m.stack_free_slot = 0
  THEN {[m EXCEPT !.running = FALSE, !.result = "INTERPRET_OK"]}
  ELSE {[m EXCEPT !.running = FALSE, !.result = "INTERPRET_OK"],
        [m EXCEPT !.running = FALSE, !.result = "aborted"]}

pop_frame(m) == [m EXCEPT !.frames = Pop(@, 1)]

\* a return that leaves the callee under the result
FunctionReturn_above_callee(m, frame, result) ==
  push_value(pop_value(m, m.stack_free_slot - frame.slots), result)

\* discard_frame_window and the push of the result
FunctionReturn(m, frame, result) ==
  push_value(
    pop_value(m, m.stack_free_slot - (frame.slots - 1)),
    result)

OP_RETURN ==
  /\ Executing("OP_RETURN")
  /\ vm' \in
       IF Len(vm.frames) = 1
       THEN ScriptReturn(
              pop_value(
                pop_frame(close_upvalues(pop_value(Fetched(vm, 0), 1),
                                         top_frame(vm).slots)),
                1))
       ELSE {FunctionReturn(
               pop_frame(close_upvalues(pop_value(Fetched(vm, 0), 1),
                                        top_frame(vm).slots)),
               top_frame(vm), peek_value(vm, 0))}


(***************************************************************************)
(* The check of a call (is_valid_call), applied to callables and numbers   *)
(* of arguments drawn from bounded sets.  call_check is the latest call:   *)
(*   kind       "check": is_valid_call alone; "closure": call_closure;     *)
(*              "native": call_native of the list method `native`          *)
(*   rejected   the arity test of is_valid_call failed                     *)
(*   valid      what is_valid_call returned                                *)
(*   invoked    the callee was entered: a frame was pushed for a closure,  *)
(*              the native function was run for a native                   *)
(*   raised     runtime_error was called                                   *)
(***************************************************************************)
VARIABLES call_check

call_vars == <<call_check>>

\* largest arity of the callables drawn
MaxArity == 2

\* arrays of `arity` parameters, each with or without a default value
ParameterArrays(arity) ==
  [1..arity -> {[default_value |-> NULL], [default_value |-> 1]}]

Callables ==
  {CompiledSignature(arity) : arity \in 0..MaxArity}
    \cup UNION {{[arity |-> arity,
                  parameters |-> [null |-> FALSE, at |-> parameters]] :
                   parameters \in ParameterArrays(arity)} :
                  arity \in 0..MaxArity}

\* one more argument than any callable takes
ArgsCounts == 0..(MaxArity + 1)

FramesCounts == {1, FRAMES_MAX - 1, FRAMES_MAX}

\* a VM with frames_count frames in which the closure of a function of the
\* given arity, or the list `this`, is on the stack under args_count
\* arguments
CallVM(frames_count, arity, callee, args_count) ==
  [vm__init EXCEPT
     !.functions = <<[name |-> "f", constants |-> <<>>,
                      code |-> <<"OP_NIL", "OP_RETURN">>,
                      upvalues_count |-> 0, arity |-> arity]>>,
     !.closures = <<[function |-> 1, upvalues |-> <<>>]>>,
     !.lists = << <<>> >>,
     !.frames = [i \in 1..frames_count |->
                   [closure |-> 1, ip |-> 1, slots |-> 1]],
     !.value_stack = <<OBJECT_VALUE("closure", 1), callee>>
                       \o [i \in 1..args_count |-> NUMBER_VALUE(0)],
     !.stack_free_slot = 2 + args_count,
     !.running = TRUE]

CallInit ==
  call_check = [done |-> FALSE, kind |-> "none",
                callable |-> CompiledSignature(0), args_count |-> 0,
                frames_count |-> 0, rejected |-> FALSE, valid |-> FALSE,
                invoked |-> FALSE, raised |-> FALSE]

\* is_valid_call(callable, args_count, vm)
is_valid_call_checked ==
  \E callable \in Callables, args_count \in ArgsCounts,
     frames_count \in FramesCounts :
    call_check' =
      [done |-> TRUE, kind |-> "check", callable |-> callable,
       args_count |-> args_count, frames_count |-> frames_count,
       rejected |-> ArityRejected(callable, args_count),
       valid |-> is_valid_call(
                   CallVM(frames_count, 0, NIL_VALUE, args_count),
                   callable, args_count),
       invoked |-> FALSE, raised |-> FALSE]

\* the record of a call that took the VM from m to after
Called(kind, callable, args_count, m, after, invoked) ==
  [done |-> TRUE, kind |-> kind, callable |-> callable,
   args_count |-> args_count, frames_count |-> Len(m.frames),
   rejected |-> ArityRejected(callable, args_count),
   valid |-> is_valid_call(m, callable, args_count),
   invoked |-> invoked, raised |-> after.error = "runtime"]

ClosureCalled(arity, args_count, m, after) ==
  Called("closure", CompiledSignature(arity), args_count, m, after,
         Len(after.frames) = Len(m.frames) + 1)

\* call_closure(closure, args_count, vm)
call_closure_checked ==
  \E arity \in 0..MaxArity, args_count \in ArgsCounts,
     frames_count \in FramesCounts :
    call_check' =
      ClosureCalled(
        arity, args_count,
        CallVM(frames_count, arity, OBJECT_VALUE("closure", 1), args_count),
        call_closure(
          CallVM(frames_count, arity, OBJECT_VALUE("closure", 1), args_count),
          1, args_count))

\* lox_list__append has appended to the list, lox_list__length has returned
\* a number
NativeCalled(native, args_count, m, after) ==
  Called("native", NativeSignature(ListMethods[native]), args_count, m, after,
         \/ native = "append" /\ Len(after.lists[1]) = 1
         \/ /\ native = "length"
            /\ after.stack_free_slot = 2
            /\ after.value_stack[2] = NUMBER_VALUE(0))

\* call_native(native, args_count, vm) of a method of the list
call_native_checked ==
  \E native \in {"length", "append"}, args_count \in ArgsCounts,
     frames_count \in FramesCounts :
    call_check' =
      NativeCalled(
        native, args_count,
        CallVM(frames_count, 0, OBJECT_VALUE("list", 1), args_count),
        call_native(
          CallVM(frames_count, 0, OBJECT_VALUE("list", 1), args_count),
          native, args_count))

(***************************************************************************)
(* SpecDeep: runs that exhaust the frame stack or the value stack.  The    *)
(* REPL reads one line and then the end of its input.                      *)
(***************************************************************************)

\* the number of nil arguments of each call of the wide program
MaxTemporaries == 200

CallOf(name, arguments) == <<"call", <<"variable", name>>, arguments>>

Nils == [i \in 1..MaxTemporaries |-> <<"nil">>]

\*  1  fun f() { f(); } f();
\*  2  fun f() { f(nil, ..., nil, f(nil, ..., nil, f())); } f();
\*     every call of f leaves 2 * MaxTemporaries + 2 temporaries under the
\*     frame of the next one
DeepPrograms ==
  { << <<"fun", "f", <<>>, << <<"expr", CallOf("f", <<>>)>> >> >>,
       <<"expr", CallOf("f", <<>>)>> >>,
    << <<"fun", "f", <<>>,
         << <<"expr",
              CallOf("f", Nils \o
                << CallOf("f", Nils \o << CallOf("f", <<>>) >>) >>)>> >> >>,
       <<"expr", CallOf("f", <<>>)>> >> }

vm__interpret_once ==
  /\ ~vm.running
  /\ vm.result = "none"
  /\ lines_left > 0
  /\ \E program \in DeepPrograms : vm' = Interpreted(vm, program)
  /\ lines_left' = 0

(***************************************************************************)
(* SpecCapture: a function that captures many variables of the functions   *)
(* that enclose it.  The REPL reads one line and then the end of its       *)
(* input.                                                                  *)
(***************************************************************************)

\* the number of variables that the outermost function declares
OuterLocals == 2

\* the number of variables of the function in the middle: with its slot 0
\* and the function it declares, they fill its locals
MidLocals == UINT8_COUNT - 2

Names(prefix, n) == [i \in 1..n |-> prefix \o ToString(i)]

\* the variables that the innermost function can capture, those of the
\* function around it first
Capturable ==
  Names("m", MidLocals) \o Names("o", OuterLocals) \o <<"mid", "inner">>

VarDeclarations(names) ==
  [i \in DOMAIN names |-> <<"var", names[i], <<"nil">>>>]

References(names) ==
  [i \in DOMAIN names |-> <<"expr", <<"variable", names[i]>>>>]

\* fun outer() {
\*   var o1; var o2;
\*   fun mid() {
\*     var m1; ...; var m254;
\*     fun inner() { m1; ...; m254; o1; o2; mid; inner; m1; }
\*   }
\* }
\* where inner refers to the first `captures` of these variables, and to
\* the first one again if `again`
CaptureProgram(captures, again) ==
  << <<"fun", "outer", <<>>,
       VarDeclarations(Names("o", OuterLocals)) \o
       << <<"fun", "mid", <<>>,
            VarDeclarations(Names("m", MidLocals)) \o
            << <<"fun", "inner", <<>>,
                 References(SubSeq(Capturable, 1, captures)) \o
                 (IF again THEN References(SubSeq(Capturable, 1, 1))
                  ELSE <<>>)>> >> >> >> >> >>

\* the largest number of variables captured by a short function, and the
\* largest number left out by a long one
MaxFew == 8

CaptureCounts ==
  {n \in 0..Len(Capturable) : n <= MaxFew \/ n >= UINT8_COUNT - MaxFew}

vm__interpret_capture ==
  /\ ~vm.running
  /\ vm.result = "none"
  /\ lines_left > 0
  /\ \E captures \in CaptureCounts, again \in BOOLEAN :
       vm' = Interpreted(vm, CaptureProgram(captures, again))
  /\ lines_left' = 0

(***************************************************************************)
(* SpecShared: two closures that capture the same variable, called after   *)
(* the variable has been closed.  The REPL reads one line and then the     *)
(* end of its input.                                                       *)
(***************************************************************************)

Getter(body) == <<"fun", "get", <<>>, << <<"return", body>> >> >>

Setter == <<"fun", "set", <<>>,
            << <<"expr", <<"assign", "a", <<"number", 2>>>>>> >> >>

KeepGetter == <<"expr", <<"assign", "g", <<"variable", "get">>>>>>

KeepSetter == <<"expr", <<"assign", "s", <<"variable", "set">>>>>>

\* The lines:
\*  1  var g; var s; { var a = 1; var b = 5; fun get() { return a + b; }
\*     fun set() { a = 2; } g = get; s = set; } s(); g();
\*  2  var g; var s; { var a = 1; fun set() { a = 2; }
\*     fun get() { return a; } g = get; s = set; } s(); g();
\*  3  var g; fun make() { var a = 1; fun get() { return a; }
\*     fun set() { a = 2; } g = get; return set; } var s = make(); s(); g();
\*  4  var g; fun make() { var a = 1; fun pair() { fun get() { return a; }
\*     fun set() { a = 2; } g = get; return set; } return pair(); }
\*     var s = make(); s(); g();
\*  5  var g; fun make() { var a = 1; fun get() { return a; }
\*     fun set() { a = 2; } g = get; return set; } var s = make(); make();
\*     s(); g();
SharedPrograms ==
  { << <<"var", "g", <<"nil">>>>, <<"var", "s", <<"nil">>>>,
       <<"block",
         << <<"var", "a", <<"number", 1>>>>,
            <<"var", "b", <<"number", 5>>>>,
            Getter(<<"binary", <<"variable", "a">>, <<"variable", "b">>>>),
            Setter, KeepGetter, KeepSetter >> >>,
       <<"expr", CallOf("s", <<>>)>>, <<"expr", CallOf("g", <<>>)>> >>,
    << <<"var", "g", <<"nil">>>>, <<"var", "s", <<"nil">>>>,
       <<"block",
         << <<"var", "a", <<"number", 1>>>>,
            Setter, Getter(<<"variable", "a">>), KeepGetter, KeepSetter >> >>,
       <<"expr", CallOf("s", <<>>)>>, <<"expr", CallOf("g", <<>>)>> >>,
    << <<"var", "g", <<"nil">>>>,
       <<"fun", "make", <<>>,
         << <<"var", "a", <<"number", 1>>>>,
            Getter(<<"variable", "a">>), Setter, KeepGetter,
            <<"return", <<"variable", "set">>>> >> >>,
       <<"var", "s", CallOf("make", <<>>)>>,
       <<"expr", CallOf("s", <<>>)>>, <<"expr", CallOf("g", <<>>)>> >>,
    << <<"var", "g", <<"nil">>>>,
       <<"fun", "make", <<>>,
         << <<"var", "a", <<"number", 1>>>>,
            <<"fun", "pair", <<>>,
              << Getter(<<"variable", "a">>), Setter, KeepGetter,
                 <<"return", <<"variable", "set">>>> >> >>,
            <<"return", CallOf("pair", <<>>)>> >> >>,
       <<"var", "s", CallOf("make", <<>>)>>,
       <<"expr", CallOf("s", <<>>)>>, <<"expr", CallOf("g", <<>>)>> >>,
    << <<"var", "g", <<"nil">>>>,
       <<"fun", "make", <<>>,
         << <<"var", "a", <<"number", 1>>>>,
            Getter(<<"variable", "a">>), Setter, KeepGetter,
            <<"return", <<"variable", "set">>>> >> >>,
       <<"var", "s", CallOf("make", <<>>)>>,
       <<"expr", CallOf("make", <<>>)>>,
       <<"expr", CallOf("s", <<>>)>>, <<"expr", CallOf("g", <<>>)>> >> }

vm__interpret_shared ==
  /\ ~vm.running
  /\ vm.result = "none"
  /\ lines_left > 0
  /\ \E program \in SharedPrograms : vm' = Interpreted(vm, program)
  /\ lines_left' = 0

(***************************************************************************)
(* SpecConstants: a script with many constants.  The REPL reads one line   *)
(* and then the end of its input.                                          *)
(***************************************************************************)

\* the largest number of constants over UINT8_COUNT in a line
MaxExcess == 2

ConstantCounts ==
  {n \in 1..(UINT8_COUNT + MaxExcess) :
     n <= MaxFew \/ n >= UINT8_COUNT - MaxFew}

\* 1; 2; ...; count;
ConstantsProgram(count) == [i \in 1..count |-> <<"expr", <<"number", i>>>>]

vm__interpret_constants ==
  /\ ~vm.running
  /\ vm.result = "none"
  /\ lines_left > 0
  /\ \E count \in ConstantCounts :
       vm' = Interpreted(vm, ConstantsProgram(count))
  /\ lines_left' = 0

(***************************************************************************)
(* SpecExpr: expressions typed at the REPL, given as tokens.               *)
(*   source   the tokens of the line, <<>> before it is read               *)
(*   trace    history variable: the instructions executed for it           *)
(***************************************************************************)
VARIABLES source, trace

expr_vars == <<source, trace>>

\* the longest chain of operators of a line
MaxChain == 3

Operands == {NumberToken(n) : n \in 1..3}

TermOperators == {Token("TOKEN_MINUS"), Token("TOKEN_PLUS")}

\* operand (operator operand)*, with n operators of the same precedence
RECURSIVE BinaryChains(_)
BinaryChains(n) ==
  IF n = 0 THEN {<<operand>> : operand \in Operands}
  ELSE {chain \o <<operator, operand>> :
          chain \in BinaryChains(n - 1), operator \in TermOperators,
          operand \in Operands}

\* n minus signs and an operand
UnaryChain(n, operand) == [i \in 1..n |-> Token("TOKEN_MINUS")] \o <<operand>>

LogicOperands ==
  {Token("TOKEN_NIL"), Token("TOKEN_FALSE"), Token("TOKEN_TRUE"),
   NumberToken(0), NumberToken(1)}

\* a and b, a or b
LogicLines ==
  {<<a, Token(operator), b>> :
     a \in LogicOperands, operator \in {"TOKEN_AND", "TOKEN_OR"},
     b \in LogicOperands}

Lines ==
  {line \o <<Token("TOKEN_EOF")>> :
     line \in UNION {BinaryChains(n) : n \in 1..(MaxChain - 1)}
                \cup {UnaryChain(n, operand) :
                        n \in 1..MaxChain, operand \in Operands}
                \cup {<<Token("TOKEN_MINUS")>> \o chain :
                        chain \in BinaryChains(1)}
                \cup {<<NumberToken(2), Token("TOKEN_STAR"), NumberToken(3),
                        Token("TOKEN_STAR"), NumberToken(2)>>}
                \cup LogicLines}

ExprInit ==
  /\ source = <<>>
  /\ trace = <<>>

\* the REPL reads the line and calls vm__interpret, then its input ends
vm__interpret_line ==
  /\ ~vm.running
  /\ vm.result = "none"
  /\ lines_left > 0
  /\ \E line \in Lines :
       /\ source' = line
       /\ vm' = Interpreted(vm, << <<"expr", <<"tokens", line>>>> >>)
  /\ trace' = <<>>
  /\ lines_left' = 0

\* run() executes the instruction, which is recorded
Run(instruction, name) ==
  /\ instruction
  /\ trace' = Append(trace, name)
  /\ UNCHANGED source

(***************************************************************************)
(* SpecToy: the doubly linked list of src/challenges/listoy.  A node is    *)
(* designated by its index in `nodes`, in allocation order; a freed node   *)
(* keeps its index.  A text is designated by a number.                     *)
(*   toy        the List: nodes, head, tail, count                         *)
(*   toy_call   the latest call on it and what it returned                 *)
(***************************************************************************)
VARIABLES toy, toy_call

toy_vars == <<toy, toy_call>>

\* the number of nodes that are allocated for elements
MaxToyNodes == 3

\* the number of different texts
MaxToyValues == 2

ToyValues == 1..MaxToyValues

node__new(nodes, previous, next, value) ==
  Append(nodes, [previous |-> previous, next |-> next, value |-> value,
                 freed |-> FALSE])

\* two empty nodes, linked to each other
list__new ==
  [nodes |-> [node__new(node__new(<<>>, NULL, NULL, NULL), NULL, NULL, NULL)
                EXCEPT ![1].next = 2, ![2].previous = 1],
   head |-> 1, tail |-> 2, count |-> 0]

node__link_after(nodes, anchor, new_node) ==
  [nodes EXCEPT ![new_node].next = nodes[anchor].next,
                ![nodes[anchor].next].previous = new_node,
                ![anchor].next = new_node,
                ![new_node].previous = anchor]

\* the new node is nodes[Len(nodes) + 1]
list__append_to(l, value) ==
  [l EXCEPT !.nodes = node__link_after(node__new(@, NULL, NULL, value),
                                       l.nodes[l.tail].previous,
                                       Len(l.nodes) + 1),
            !.count = @ + 1]

list__prepend_to(l, value) ==
  [l EXCEPT !.nodes = node__link_after(node__new(@, NULL, NULL, value),
                                       l.head, Len(l.nodes) + 1),
            !.count = @ + 1]

node__unlink(nodes, node) ==
  [nodes EXCEPT ![nodes[node].previous].next = nodes[node].next,
                ![nodes[node].next].previous = nodes[node].previous]

node__dispose(nodes, node) == [nodes EXCEPT ![node].freed = TRUE]

\* LIST__FOREACH from `it`: the first node with the target text, or NULL
RECURSIVE FindFrom(_, _, _)
FindFrom(l, it, target) ==
  IF it = l.tail THEN NULL
  ELSE IF l.nodes[it].value = target THEN it
  ELSE FindFrom(l, l.nodes[it].next, target)

list__find(target, l) == FindFrom(l, l.nodes[l.head].next, target)

\* list__delete that forgets to decrement count
list__delete_keeps_count(l, target) ==
  IF list__find(target, l) # NULL
  THEN [l EXCEPT !.nodes = node__dispose(
                             node__unlink(@, list__find(target, l)),
                             list__find(target, l))]
  ELSE l

list__delete_from(l, target) ==
  IF list__find(target, l) # NULL
  THEN [l EXCEPT !.nodes = node__dispose(
                             node__unlink(@, list__find(target, l)),
                             list__find(target, l)),
                 !.count = @ - 1]
  ELSE l

ToyInit ==
  /\ toy = list__new
  /\ toy_call = [op |-> "list__new", value |-> NULL, returned |-> FALSE]

list__append ==
  \E value \in ToyValues :
    /\ Len(toy.nodes) < 2 + MaxToyNodes
    /\ toy' = list__append_to(toy, value)
    /\ toy_call' = [op |-> "list__append", value |-> value,
                    returned |-> FALSE]

list__prepend ==
  \E value \in ToyValues :
    /\ Len(toy.nodes) < 2 + MaxToyNodes
    /\ toy' = list__prepend_to(toy, value)
    /\ toy_call' = [op |-> "list__prepend", value |-> value,
                    returned |-> FALSE]

list__delete ==
  \E target \in ToyValues :
    /\ toy' = list__delete_from(toy, target)
    /\ toy_call' = [op |-> "list__delete", value |-> target,
                    returned |-> list__find(target, toy) # NULL]

(***************************************************************************)
(* SpecTable: the hash table (table.c) under table__set and table__delete. *)
(* table__get and the values that table__set and table__delete return are  *)
(* functions of the table and are operators.  An entry is designated by    *)
(* its index in `entries`, from 1 (entries[i + 1] is the C entries[i]); a   *)
(* key is designated by a number, NULL being no key.                       *)
(*   table        the Table: count, capacity, entries                      *)
(*   table_map    history variable: the value last set for each key that   *)
(*                was not deleted since                                    *)
(***************************************************************************)
VARIABLES table, table_map

table_vars == <<table, table_map>>

\* the number of keys: one more than a table of 8 entries takes
MaxTableKeys == 7

TableKeys == 1..MaxTableKeys

\* the values that are set: the ones that mark the entries without a key
TableValues == {NIL_VALUE, BOOL_VALUE(TRUE)}

\* key->hash: in a table of 8 or 16 entries the keys 1 and 2 collide, and
\* the keys from 3 on follow them
KeyHash(key) == IF key = 2 THEN 17 ELSE key

\* the loop of find_entry, `left` probes before every entry has been seen
\* once; 0 if the loop does not end
RECURSIVE Probe(_, _, _, _, _, _)
Probe(entries, capacity, key, index, tombstone, left) ==
  IF left = 0 THEN 0
  ELSE IF entries[index + 1].key = NULL
  THEN IF entries[index + 1].value = NIL_VALUE
       THEN IF tombstone # NULL THEN tombstone ELSE index + 1
       ELSE Probe(entries, capacity, key, (index + 1) % capacity,
                  IF tombstone = NULL THEN index + 1 ELSE tombstone,
                  left - 1)
  ELSE IF entries[index + 1].key = key THEN index + 1
  ELSE Probe(entries, capacity, key, (index + 1) % capacity, tombstone,
             left - 1)

find_entry(entries, capacity, key) ==
  Probe(entries, capacity, key, KeyHash(key) % capacity, NULL, capacity)

\* the loop of table__find_string for the characters of `key` (strings
\* with the same characters are the same key): the key, NULL, or -1 if the
\* loop does not end
RECURSIVE ProbeString(_, _, _, _)
ProbeString(t, key, index, left) ==
  IF left = 0 THEN -1
  ELSE IF t.entries[index + 1].key = NULL
          /\ t.entries[index + 1].value = NIL_VALUE
  THEN NULL
  ELSE IF t.entries[index + 1].key = key THEN key
  ELSE ProbeString(t, key, (index + 1) % t.capacity, left - 1)

find_string(t, key) ==
  IF t.count = 0 THEN NULL
  ELSE ProbeString(t, key, KeyHash(key) % t.capacity, t.capacity)

allocate_entries(capacity) ==
  [i \in 1..capacity |-> [key |-> NULL, value |-> NIL_VALUE]]

\* the loop of copy_entries_from, from entry i on: the new entries and the
\* new count
RECURSIVE copy_entries_from(_, _, _, _)
copy_entries_from(t, new, new_capacity, i) ==
  IF i > t.capacity THEN new
  ELSE IF t.entries[i].key = NULL
  THEN copy_entries_from(t, new, new_capacity, i + 1)
  ELSE copy_entries_from(
         t,
         [count |-> new.count + 1,
          entries |-> [new.entries EXCEPT
             ![find_entry(new.entries, new_capacity, t.entries[i].key)] =
                t.entries[i]]],
         new_capacity, i + 1)

adjust_capacity(t, new_capacity) ==
  LET new == copy_entries_from(
               t, [count |-> 0, entries |-> allocate_entries(new_capacity)],
               new_capacity, 1)
  IN [count |-> new.count, entries |-> new.entries,
      capacity |-> new_capacity]

\* a test of the load that leaves the new entry out
Overloaded_before_set(t) == t.capacity = 0 \/ 4 * t.count > 3 * t.capacity

\* table->count + 1 > table->capacity * TABLE_MAX_LOAD, with 0.75 = 3 / 4
Overloaded(t) == 4 * (t.count + 1) > 3 * t.capacity

Grown(t) ==
  IF Overloaded(t) THEN adjust_capacity(t, GROW_CAPACITY(t.capacity)) ELSE t

\* table__set once the table has grown, entry being what find_entry found
SetEntry(t, entry, key, value) ==
  [t EXCEPT !.count = IF t.entries[entry].key = NULL
                         /\ t.entries[entry].value = NIL_VALUE
                      THEN @ + 1 ELSE @,
            !.entries[entry] = [key |-> key, value |-> value]]

table__set_in(t, key, value) ==
  LET grown == Grown(t)
  IN SetEntry(grown, find_entry(grown.entries, grown.capacity, key), key,
              value)

\* what table__set returns
is_new_key(t, key) ==
  LET grown == Grown(t)
  IN grown.entries[find_entry(grown.entries, grown.capacity, key)].key = NULL

\* what table__get returns, and *out_value
table__get_in(t, key) ==
  IF t.count = 0 THEN [returned |-> FALSE, value |-> NIL_VALUE]
  ELSE LET entry == t.entries[find_entry(t.entries, t.capacity, key)]
       IN IF entry.key = NULL THEN [returned |-> FALSE, value |-> NIL_VALUE]
          ELSE [returned |-> TRUE, value |-> entry.value]

\* what table__delete returns
deleted(t, key) ==
  /\ t.count # 0
  /\ t.entries[find_entry(t.entries, t.capacity, key)].key # NULL

\* a table__delete that leaves an empty entry
table__delete_emptying(t, key) ==
  IF deleted(t, key)
  THEN [t EXCEPT !.entries[find_entry(t.entries, t.capacity, key)] =
                    [key |-> NULL, value |-> NIL_VALUE]]
  ELSE t

\* a tombstone is placed in the entry
table__delete_in(t, key) ==
  IF deleted(t, key)
  THEN [t EXCEPT !.entries[find_entry(t.entries, t.capacity, key)] =
                    [key |-> NULL, value |-> BOOL_VALUE(TRUE)]]
  ELSE t

\* table__init
TableInit ==
  /\ table = [count |-> 0, capacity |-> 0, entries |-> <<>>]
  /\ table_map = <<>>

table__set ==
  \E key \in TableKeys, value \in TableValues :
    /\ table' = table__set_in(table, key, value)
    /\ table_map' = [k \in DOMAIN table_map \cup {key} |->
                       IF k = key THEN value ELSE table_map[k]]

table__delete ==
  \E key \in TableKeys :
    /\ table' = table__delete_in(table, key)
    /\ table_map' = [k \in DOMAIN table_map \ {key} |-> table_map[k]]

(***************************************************************************)
(* SpecMemory: the accounting of memory__reallocate (memory.c) and the     *)
(* collections it starts.  The blocks are those that were requested and    *)
(* not freed; a collection frees any of the blocks but the one that is     *)
(* being reallocated (sweep frees through memory__reallocate with          *)
(* new_size 0).  Sizes are in bytes and stay far below SIZE_MAX.           *)
(*   gc_bytes    __gc: bytes_allocated, next_gc_in_bytes, and the build:   *)
(*               "none" before memory__init_gc, then "default" or          *)
(*               "DEBUG_STRESS_GC"                                         *)
(*   blocks      the size of each pointer, 0 if it is not allocated          *)
(*   request     the latest call of memory__reallocate: old_size and       *)
(*               new_size, bytes_allocated once updated, next_gc_in_bytes  *)
(*               when the call began, the number of collections started    *)
(***************************************************************************)
VARIABLES gc_bytes, blocks, request

memory_vars == <<gc_bytes, blocks, request>>

\* the number of blocks
MaxBlocks == 3

\* the largest size of a pointer, in units of 512 KiB
MaxChunks == 2

Blocks == 1..MaxBlocks

BlockSizes == {chunks * 512 * 1024 : chunks \in 0..MaxChunks}

GC_HEAP_GROW_FACTOR == 2

RECURSIVE BytesOf(_, _)
BytesOf(sizes, set) ==
  IF set = {} THEN 0
  ELSE LET pointer == CHOOSE b \in set : TRUE
       IN sizes[pointer] + BytesOf(sizes, set \ {pointer})

\* memory__run_gc when the blocks `dead` are those that sweep frees: each is
\* freed by memory__reallocate(pointer, size, 0), which starts no collection
run_gc_freeing(s, dead) ==
  [s EXCEPT
     !.bytes_allocated = @ - BytesOf(s.blocks, dead),
     !.blocks = [b \in Blocks |-> IF b \in dead THEN 0 ELSE s.blocks[b]],
     !.next_gc_in_bytes =
        (s.bytes_allocated - BytesOf(s.blocks, dead)) * GC_HEAP_GROW_FACTOR,
     !.cycles = @ + 1]

\* the outcomes of memory__run_gc during the reallocation of the block `pointer`
Collections(s, pointer) ==
  {run_gc_freeing(s, dead) :
     dead \in SUBSET {b \in Blocks \ {pointer} : s.blocks[b] > 0}}

\* a test that starts a collection at the threshold
AtThreshold(s) == s.bytes_allocated >= s.next_gc_in_bytes

\* __gc.bytes_allocated > __gc.next_gc_in_bytes
OverThreshold(s) == s.bytes_allocated > s.next_gc_in_bytes

\* #ifdef DEBUG_STRESS_GC memory__run_gc(); #endif
StressCollections(s, pointer) ==
  IF s.build = "DEBUG_STRESS_GC" THEN Collections(s, pointer) ELSE {s}

ThresholdCollections(s, pointer) ==
  IF OverThreshold(s) THEN Collections(s, pointer) ELSE {s}

\* memory__reallocate of the block `pointer` to new_size: the outcomes,
\* s.cycles counting the collections
Reallocations(s, pointer, new_size) ==
  LET old_size == s.blocks[pointer]
      updated == [s EXCEPT !.bytes_allocated = @ + new_size - old_size,
                           !.cycles = 0]
      collected ==
        IF new_size > old_size
        THEN UNION {ThresholdCollections(stressed, pointer) :
                      stressed \in StressCollections(updated, pointer)}
        ELSE {updated}
  IN {[after EXCEPT !.blocks[pointer] = new_size] : after \in collected}

MemoryInit ==
  /\ gc_bytes = [build |-> "none", bytes_allocated |-> 0,
                 next_gc_in_bytes |-> 0]
  /\ blocks = [b \in Blocks |-> 0]
  /\ request = [old_size |-> 0, new_size |-> 0, updated |-> 0,
                threshold |-> 0, cycles |-> 0]

\* the program starts: one of the two builds
memory__init_gc ==
  /\ gc_bytes.build = "none"
  /\ \E build \in {"default", "DEBUG_STRESS_GC"} :
       gc_bytes' = [build |-> build, bytes_allocated |-> 0,
                    next_gc_in_bytes |-> 1024 * 1024]
  /\ UNCHANGED <<blocks, request>>

memory__reallocate_block ==
  /\ gc_bytes.build # "none"
  /\ \E pointer \in Blocks, new_size \in BlockSizes :
       \E after \in Reallocations(
                      [build |-> gc_bytes.build,
                       bytes_allocated |-> gc_bytes.bytes_allocated,
                       next_gc_in_bytes |-> gc_bytes.next_gc_in_bytes,
                       blocks |-> blocks, cycles |-> 0],
                      pointer, new_size) :
         /\ gc_bytes' = [build |-> after.build,
                         bytes_allocated |-> after.bytes_allocated,
                         next_gc_in_bytes |-> after.next_gc_in_bytes]
         /\ blocks' = after.blocks
         /\ request' = [old_size |-> blocks[pointer], new_size |-> new_size,
                        updated |-> gc_bytes.bytes_allocated + new_size
                                      - blocks[pointer],
                        threshold |-> gc_bytes.next_gc_in_bytes,
                        cycles |-> after.cycles]

(***************************************************************************)
(* SpecNursery: the object nursery (memory.c) under any sequence of        *)
(* memory__open_object_nursery, memory__close_object_nursery and object    *)
(* allocations, each of which may run a collection, from the VM that       *)
(* vm__init starts with: no object, no scope.                              *)
(*   nursery   the VM struct as the collector sees it, as `mem`; an object *)
(*             the caller keeps is pushed on the value stack               *)
(***************************************************************************)
VARIABLES nursery

nursery_vars == <<nursery>>

\* the depth of the nested scopes
MaxNesting == 2

\* the number of objects linked in vm->objects
MaxNurseryObjs == 3

NurseryInit == nursery = EmptyVM

nursery_open ==
  /\ ~nursery.crashed
  /\ nursery.object_nursery_nested_scopes < MaxNesting
  /\ nursery' = memory__open_object_nursery(nursery)

nursery_close ==
  /\ ~nursery.crashed
  /\ nursery.object_nursery_nested_scopes > 0
  /\ nursery' = memory__close_object_nursery(nursery)

\* ALLOCATE_OBJECT of a string that the caller then pushes on the stack
\* (kept) or drops
nursery_allocate ==
  /\ ~nursery.crashed
  /\ Len(nursery.objects) < MaxNurseryObjs
  /\ \E r \in AllocRequest(nursery, TRUE), kept \in BOOLEAN :
       IF r.m.crashed THEN nursery' = r.m
       ELSE \E a \in AllocAddrs(r.m, <<>>) :
              nursery' =
                [track_object_for_gc(r.m, a,
                                     [FreeCell EXCEPT !.type = "string"])
                   EXCEPT !.value_stack = IF kept THEN Append(@, a) ELSE @]

(***************************************************************************)
(* SpecContexts: the compile contexts (compiler.c) and the pointer the     *)
(* collector starts from.  A FunctionCompiler is a local variable of       *)
(* compiler__compile (the script) or of function() (a nested function):    *)
(* the context at nesting depth d lives in stack slot d, and the slot is a *)
(* FunctionCompiler only until the call that declares it returns.          *)
(*   contexts             per stack slot, the FunctionCompiler in it       *)
(*   current_fn_compiler  vm->current_fn_compiler, a slot or NULL          *)
(*   function_compiler    compiler->function_compiler, a slot or NULL      *)
(*   compile_phase        "prompt", "compile" or "run"                     *)
(*   functions_made       the function objects allocated for this line     *)
(*   gc_points            history: the allocation requests of the last     *)
(*                        step, each with what the pointer designated      *)
(***************************************************************************)
VARIABLES contexts, current_fn_compiler, function_compiler, compile_phase,
          functions_made, gc_points

contexts_vars == <<contexts, current_fn_compiler, function_compiler,
                   compile_phase, functions_made, gc_points>>

\* the depth of the nested function declarations
MaxDepth == 4

\* the functions declared in one line, the script included
MaxFunctions == 6

Slots == 1..MaxDepth

\* a stack slot that holds no FunctionCompiler: never used, or the local
\* variable of a call that has returned
DeadSlot == [status |-> "dead", enclosing |-> NULL, function |-> NULL]

ContextsInit ==
  /\ contexts = [slot \in Slots |-> DeadSlot]
  /\ current_fn_compiler = NULL
  /\ function_compiler = NULL
  /\ compile_phase = "prompt"
  /\ functions_made = 0
  /\ gc_points = <<>>

\* the contexts still under compilation
ActiveContexts(all) == {slot \in Slots : all[slot].status = "active"}

Innermost(all) ==
  IF ActiveContexts(all) = {} THEN NULL
  ELSE CHOOSE slot \in ActiveContexts(all) :
         \A other \in ActiveContexts(all) : other <= slot

\* compiler__mark_roots: the slots visited from `current` along the
\* enclosing links; the walk cannot be followed past a slot that is not a
\* FunctionCompiler any more
RECURSIVE MarkedContexts(_, _)
MarkedContexts(all, current) ==
  IF current = NULL THEN {}
  ELSE IF all[current].status = "dead" THEN {current}
  ELSE {current} \cup MarkedContexts(all, all[current].enclosing)

\* an allocation request made at `at`: memory__reallocate may run a
\* collection, which calls compiler__mark_roots(vm->current_fn_compiler)
GcPoint(at, all, current) ==
  [at |-> at, current |-> current,
   status |-> IF current = NULL THEN "null" ELSE all[current].status,
   innermost |-> Innermost(all),
   marked |-> MarkedContexts(all, current),
   active |-> ActiveContexts(all)]

\* vm__interpret up to the first token: reset_for_execution, then
\* compiler__compile initialises the context of the script;
\* function_compiler__init allocates the function before it writes the
\* pointer
compiler__compile_begin ==
  /\ compile_phase = "prompt"
  /\ contexts' = [contexts EXCEPT ![1] =
                    [status |-> "active", enclosing |-> NULL, function |-> 1]]
  /\ functions_made' = 1
  /\ gc_points' = <<GcPoint("function__new", contexts, NULL)>>
  /\ current_fn_compiler' = 1
  /\ function_compiler' = 1
  /\ compile_phase' = "compile"

\* function() up to the parameters: start_function_compilation, whose
\* string__copy of the name allocates after the pointer is written
function_begin ==
  /\ compile_phase = "compile"
  /\ function_compiler < MaxDepth
  /\ functions_made < MaxFunctions
  /\ LET slot == function_compiler + 1
         started == [contexts EXCEPT ![slot] =
                       [status |-> "active", enclosing |-> function_compiler,
                        function |-> functions_made + 1]]
     IN /\ contexts' = started
        /\ gc_points' =
             <<GcPoint("function__new", contexts, current_fn_compiler),
               GcPoint("string__copy", started, slot)>>
        /\ current_fn_compiler' = slot
        /\ function_compiler' = slot
  /\ functions_made' = functions_made + 1
  /\ UNCHANGED compile_phase

\* a declaration that stores a constant or copies an identifier
store_constant_in_context ==
  /\ compile_phase = "compile"
  /\ gc_points' = <<GcPoint("store_constant", contexts, current_fn_compiler)>>
  /\ UNCHANGED <<contexts, current_fn_compiler, function_compiler,
                 compile_phase, functions_made>>

\* function() from finish_function_compilation on: the function is stored
\* as a constant of the enclosing function, then function() returns and
\* its FunctionCompiler is gone
function_end ==
  /\ compile_phase = "compile"
  /\ function_compiler > 1
  /\ LET finished == [contexts EXCEPT ![function_compiler].status = "finished"]
     IN /\ gc_points' =
             <<GcPoint("store_constant", finished, current_fn_compiler)>>
        /\ contexts' = [contexts EXCEPT ![function_compiler] = DeadSlot]
  /\ function_compiler' = contexts[function_compiler].enclosing
  /\ UNCHANGED <<current_fn_compiler, compile_phase, functions_made>>

\* compiler__compile from finish_function_compilation on, and vm__interpret
\* after it: a compile error returns, otherwise closure__new allocates
compiler__compile_end ==
  /\ compile_phase = "compile"
  /\ function_compiler = 1
  /\ contexts' = [contexts EXCEPT ![1] = DeadSlot]
  /\ function_compiler' = NULL
  /\ \E had_error \in BOOLEAN :
       IF had_error
       THEN gc_points' = <<>> /\ compile_phase' = "prompt"
       ELSE /\ gc_points' = <<GcPoint("closure__new", contexts',
                                      current_fn_compiler)>>
            /\ compile_phase' = "run"
  /\ UNCHANGED <<current_fn_compiler, functions_made>>

\* an instruction of run() that allocates
run_allocate ==
  /\ compile_phase = "run"
  /\ gc_points' = <<GcPoint("run", contexts, current_fn_compiler)>>
  /\ UNCHANGED <<contexts, current_fn_compiler, function_compiler,
                 compile_phase, functions_made>>

\* run() returns: after a runtime error reset_for_execution has run
run_end ==
  /\ compile_phase = "run"
  /\ \E failed \in BOOLEAN :
       current_fn_compiler' = IF failed THEN NULL ELSE current_fn_compiler
  /\ compile_phase' = "prompt"
  /\ gc_points' = <<>>
  /\ UNCHANGED <<contexts, function_compiler, functions_made>>

(***************************************************************************)
(* SpecUpvalues: the compiler on a line that is cut into the steps which   *)
(* declare a variable, open a block, begin or end a function declaration   *)
(* and refer to a variable by name, taken in any order.                    *)
(*   upv        the compiler: the function objects and the chain of        *)
(*              FunctionCompilers, innermost last                          *)
(*   upv_first  history: per FunctionCompiler of the chain, the upvalue    *)
(*              index that resolve_upvalue returned the first time for     *)
(*              each name, as pairs <<name, index>>                        *)
(*   upv_call   history: the name of the latest reference, and the call of *)
(*              resolve_upvalue that named_variable_or_assignment made for *)
(*              it, if it made one                                         *)
(*   upv_steps  the steps taken                                            *)
(***************************************************************************)
VARIABLES upv, upv_first, upv_call, upv_steps

upvalue_vars == <<upv, upv_first, upv_call, upv_steps>>

\* the steps of one line
MaxUpvSteps == 7

\* the FunctionCompilers of the chain, the script included
MaxUpvDepth == 3

\* the variables declared in one function
MaxUpvLocals == 2

\* the depth of the scopes of one function
MaxUpvScopes == 2

UpvNames == {"a", "b"}

\* upvalues_count of the function of each FunctionCompiler of the chain
UpvaluesCounts(c) ==
  [level \in DOMAIN c.compilers |->
     c.functions[c.compilers[level].function].upvalues_count]

NoUpvCall ==
  [done |-> FALSE, name |-> "", returned |-> -1, known |-> FALSE,
   first |-> -1, before |-> <<>>, after |-> <<>>]

UpvaluesInit ==
  /\ upv = function_compiler__init(
             [functions |-> <<>>, compilers |-> <<>>, had_error |-> FALSE,
              panic_mode |-> FALSE,
              messages |-> {}, can_assign |-> FALSE,
              location |-> 0, ends |-> {}, tokens |-> <<Token("TOKEN_EOF")>>,
              previous_token |-> Token("TOKEN_BOF")],
             "TYPE_SCRIPT")
  /\ upv_first = <<{}>>
  /\ upv_call = NoUpvCall
  /\ upv_steps = 0

UpvStep ==
  /\ upv_steps < MaxUpvSteps
  /\ upv_steps' = upv_steps + 1

\* `var name;`
upv_var_declaration ==
  /\ UpvStep
  /\ Len(CurrentCompiler(upv).locals) <= MaxUpvLocals
  /\ \E name \in UpvNames :
       upv' = declaration(upv, <<"var", name, <<"nil">>>>, FALSE)
  /\ upv_call' = NoUpvCall
  /\ UNCHANGED upv_first

\* `{`
upv_begin_scope ==
  /\ UpvStep
  /\ CurrentCompiler(upv).scope_depth < MaxUpvScopes
  /\ upv' = begin_scope(upv)
  /\ upv_call' = NoUpvCall
  /\ UNCHANGED upv_first

\* `fun f() {` in a block or in a function, where f is a local variable
upv_function_begin ==
  /\ UpvStep
  /\ Len(upv.compilers) < MaxUpvDepth
  /\ CurrentCompiler(upv).scope_depth > 0
  /\ upv' = begin_scope(
              start_function_compilation(
                mark_latest_local_initialized(declare_variable(upv, "f")),
                "TYPE_FUNCTION", "f"))
  /\ upv_first' = Append(upv_first, {})
  /\ upv_call' = NoUpvCall

\* `}` that ends the body of a function
upv_function_end ==
  /\ UpvStep
  /\ Len(upv.compilers) > 1
  /\ upv' = synchronize(define_variable(end_function(upv), 0))
  /\ upv_first' = Pop(upv_first, 1)
  /\ upv_call' = NoUpvCall

\* what the call resolve_upvalue(&name, current) of
\* named_variable_or_assignment returns and does, for the history
ResolveUpvalueCall(c, first, name) ==
  LET resolved == resolve_upvalue(c, name, Len(c.compilers))
      known == \E pair \in first : pair[1] = name
  IN [done |-> TRUE, name |-> name, returned |-> resolved.location,
      known |-> known,
      first |-> IF known
                THEN (CHOOSE pair \in first : pair[1] = name)[2]
                ELSE resolved.location,
      before |-> UpvaluesCounts(c), after |-> UpvaluesCounts(resolved)]

\* `name;`
upv_named_variable ==
  /\ UpvStep
  /\ \E name \in UpvNames :
       /\ upv' = declaration(upv, <<"expr", <<"variable", name>>>>, FALSE)
       /\ IF resolve_local(CurrentCompiler(upv), name) # -1
          THEN /\ upv_call' = [NoUpvCall EXCEPT !.name = name]
               /\ UNCHANGED upv_first
          ELSE LET made == ResolveUpvalueCall(upv, Top(upv_first), name)
               IN /\ upv_call' = made
                  /\ upv_first' =
                       IF made.known \/ made.returned = -1 THEN upv_first
                       ELSE [upv_first EXCEPT ![Len(upv_first)] =
                               @ \cup {<<name, made.returned>>}]

(***************************************************************************)
(* SpecAssign: lines in which an operand is followed by `=`, given as      *)
(* tokens and compiled as the only statement of a script.  A line is a     *)
(* target placed in a context and followed by a tail.                      *)
(*   assign_line   the context, the target and the tail of the line read,  *)
(*                 "" before a line is read                                *)
(*   assigned      what compiler__compile left: the code of the script,    *)
(*                 had_error, the messages reported and can_assign         *)
(***************************************************************************)
VARIABLES assign_line, assigned

assign_vars == <<assign_line, assigned>>

\* what stands before the target and after the tail
AssignContexts ==
  {"none", "assign", "group", "plus", "minus", "star", "negate", "and",
   "or", "plus_star"}

AssignTargets ==
  {"variable", "property", "nested_property", "grouped_property",
   "call_property", "grouped", "number"}

AssignTails == {"none", "assign", "chain"}

ContextBefore(context) ==
  CASE context = "none" -> <<>>
    [] context = "assign" -> <<IdentifierToken("a"), Token("TOKEN_EQUAL")>>
    [] context = "group" ->
         <<IdentifierToken("a"), Token("TOKEN_PLUS"),
           Token("TOKEN_LEFT_PAREN")>>
    [] context = "plus" -> <<IdentifierToken("a"), Token("TOKEN_PLUS")>>
    [] context = "minus" -> <<IdentifierToken("a"), Token("TOKEN_MINUS")>>
    [] context = "star" -> <<IdentifierToken("a"), Token("TOKEN_STAR")>>
    [] context = "negate" -> <<Token("TOKEN_MINUS")>>
    [] context = "and" -> <<IdentifierToken("a"), Token("TOKEN_AND")>>
    [] context = "or" -> <<IdentifierToken("a"), Token("TOKEN_OR")>>
    [] context = "plus_star" ->
         <<IdentifierToken("a"), Token("TOKEN_PLUS"), IdentifierToken("a"),
           Token("TOKEN_STAR")>>

ContextAfter(context) ==
  IF context = "group" THEN <<Token("TOKEN_RIGHT_PAREN")>> ELSE <<>>

TargetTokens(target) ==
  CASE target = "variable" -> <<IdentifierToken("b")>>
    [] target = "property" ->
         <<IdentifierToken("b"), Token("TOKEN_DOT"), IdentifierToken("c")>>
    [] target = "nested_property" ->
         <<IdentifierToken("b"), Token("TOKEN_DOT"), IdentifierToken("c"),
           Token("TOKEN_DOT"), IdentifierToken("d")>>
    [] target = "grouped_property" ->
         <<Token("TOKEN_LEFT_PAREN"), IdentifierToken("b"),
           Token("TOKEN_RIGHT_PAREN"), Token("TOKEN_DOT"),
           IdentifierToken("c")>>
    [] target = "call_property" ->
         <<IdentifierToken("b"), Token("TOKEN_LEFT_PAREN"),
           Token("TOKEN_RIGHT_PAREN"), Token("TOKEN_DOT"),
           IdentifierToken("c")>>
    [] target = "grouped" ->
         <<Token("TOKEN_LEFT_PAREN"), IdentifierToken("b"),
           Token("TOKEN_RIGHT_PAREN")>>
    [] target = "number" -> <<NumberToken(1)>>

TailTokens(tail) ==
  CASE tail = "none" -> <<>>
    [] tail = "assign" -> <<Token("TOKEN_EQUAL"), NumberToken(2)>>
    [] tail = "chain" ->
         <<Token("TOKEN_EQUAL"), IdentifierToken("e"), Token("TOKEN_EQUAL"),
           NumberToken(2)>>

\* `a + b = 2` is the line of "plus", "variable", "assign"
LineTokens(line) ==
  ContextBefore(line.context) \o TargetTokens(line.target)
    \o TailTokens(line.tail) \o ContextAfter(line.context)
    \o <<Token("TOKEN_EOF")>>

NoLine == [context |-> "", target |-> "", tail |-> ""]

NotCompiled ==
  [done |-> FALSE, code |-> <<>>, had_error |-> FALSE, messages |-> {},
   can_assign |-> FALSE]

AssignInit ==
  /\ assign_line = NoLine
  /\ assigned = NotCompiled

\* the REPL reads a line
assign_read ==
  /\ assign_line = NoLine
  /\ \E context \in AssignContexts, target \in AssignTargets,
        tail \in AssignTails :
       assign_line' = [context |-> context, target |-> target, tail |-> tail]
  /\ UNCHANGED assigned

\* what vm__interpret gets from the compiler
CompiledLine(c) ==
  [done |-> TRUE, code |-> c.functions[1].code, had_error |-> c.had_error,
   messages |-> c.messages, can_assign |-> c.can_assign]

\* compiler__compile of the line
assign_compile ==
  /\ assign_line # NoLine
  /\ ~assigned.done
  /\ assigned' =
       CompiledLine(
         compiler__compile(
           <<>>, << <<"expr", <<"tokens", LineTokens(assign_line)>>>> >>))
  /\ UNCHANGED assign_line

(***************************************************************************)
(* SpecJumps: the jump distances that the compiler writes, in a chunk of   *)
(* code of which only the length and the bytes of the jump instructions    *)
(* are kept, so that distances past UINT16_MAX are reached.                *)
(*   jumps    count: the length of the code; instructions: the bytes       *)
(*            written for jump instructions, by offset; had_error;         *)
(*            placeholders: the offsets returned by emit_placeholder_jump  *)
(*            and not patched yet, the latest first; loop_starts: the      *)
(*            offsets recorded for loops not closed yet                    *)
(*   jumped   the jump written last: its kind, the offset of its operand,  *)
(*            the offset where it must land and whether writing it         *)
(*            reported an error                                            *)
(***************************************************************************)
VARIABLES jumps, jumped

jumps_vars == <<jumps, jumped>>

MaxJumpSteps == 4

\* the lengths of the code emitted between the jump instructions
BodySizes ==
  {0, 1, 2, 252, 253, 254, 255, 256, 65532, 65533, 65534, 65535, 65536}

NoJump ==
  [kind |-> "none", offset |-> 0, target |-> 0, reported |-> FALSE,
   steps |-> 0]

JumpsInit ==
  /\ jumps = [count |-> 0, instructions |-> <<>>, had_error |-> FALSE,
              placeholders |-> <<>>, loop_starts |-> <<>>]
  /\ jumped = NoJump

\* emit_byte on the chunk: instructions[count++] = byte
emit_byte_at(code, byte) ==
  [code EXCEPT !.count = @ + 1,
               !.instructions = (code.count :> byte) @@ @]

error_in(code) == [code EXCEPT !.had_error = TRUE]

emit_loop_wide(loop_start_offset, code) ==
  LET emitted == emit_byte_at(code, "OP_LOOP")
      jump_length == jump_length_of_loop(emitted.count, loop_start_offset)
      checked ==
        IF jump_length > UINT16_MAX THEN error_in(emitted) ELSE emitted
  IN emit_byte_at(emit_byte_at(checked, high_bits(jump_length)),
                  low_bits(jump_length))

emit_placeholder_jump_at(instruction, code) ==
  emit_byte_at(emit_byte_at(emit_byte_at(code, instruction), 255), 255)

patch_jump_at(offset, code) ==
  LET jump_length == jump_length_of(code.count, offset)
      checked == IF jump_length > UINT16_MAX THEN error_in(code) ELSE code
  IN [checked EXCEPT
        !.instructions =
           (offset :> high_bits(jump_length))
             @@ ((offset + 1) :> low_bits(jump_length)) @@ @]

JumpStep == jumped.steps < MaxJumpSteps

\* any code without jumps: an expression, a statement ...
jumps_body ==
  /\ JumpStep
  /\ \E size \in BodySizes :
       jumps' = [jumps EXCEPT !.count = @ + size]
  /\ jumped' = [NoJump EXCEPT !.steps = jumped.steps + 1]

\* if_statement, and_, or_, while_statement: a jump to patch later
jumps_placeholder ==
  /\ JumpStep
  /\ \E instruction \in {"OP_JUMP", "OP_JUMP_IF_FALSE"} :
       LET emitted == emit_placeholder_jump_at(instruction, jumps)
       IN jumps' = [emitted EXCEPT
                      !.placeholders = <<emitted.count - 2>> \o @]
  /\ jumped' = [NoJump EXCEPT !.steps = jumped.steps + 1]

jumps_patch ==
  /\ JumpStep
  /\ jumps.placeholders # <<>>
  /\ LET offset == Head(jumps.placeholders)
         patched == patch_jump_at(offset, [jumps EXCEPT !.had_error = FALSE])
     IN /\ jumps' = [patched EXCEPT
                       !.placeholders = Tail(@),
                       !.had_error = jumps.had_error \/ @]
        /\ jumped' = [kind |-> "forward", offset |-> offset,
                      target |-> jumps.count,
                      reported |-> patched.had_error,
                      steps |-> jumped.steps + 1]

\* while_statement, for_statement: loop_start_offset = count
jumps_loop_start ==
  /\ JumpStep
  /\ jumps' = [jumps EXCEPT !.loop_starts = <<jumps.count>> \o @]
  /\ jumped' = [NoJump EXCEPT !.steps = jumped.steps + 1]

jumps_loop ==
  /\ JumpStep
  /\ jumps.loop_starts # <<>>
  /\ LET loop_start_offset == Head(jumps.loop_starts)
         looped ==
           emit_loop_wide(loop_start_offset,
                          [jumps EXCEPT !.had_error = FALSE])
     IN /\ jumps' = [looped EXCEPT
                       !.loop_starts = Tail(@),
                       !.had_error = jumps.had_error \/ @]
        /\ jumped' = [kind |-> "backward", offset |-> jumps.count + 1,
                      target |-> loop_start_offset,
                      reported |-> looped.had_error,
                      steps |-> jumped.steps + 1]

(***************************************************************************)
(* SpecGlobals: the instructions on global variables, run on the hash      *)
(* table of vm->global_vars.  A name is designated by a number, as a key   *)
(* of SpecTable.                                                           *)
(*   globals         the Table vm->global_vars                             *)
(*   globals_map     history variable: the value of each name on which     *)
(*                   OP_DEFINE_GLOBAL was executed, as last written        *)
(*   globals_run     the instruction executed last, its name and how it    *)
(*                   ended                                                 *)
(***************************************************************************)
VARIABLES globals, globals_map, globals_run

globals_vars == <<globals, globals_map, globals_run>>

\* the names that the program declares: the first ones, which collide
MaxDeclared == 3

DeclaredNames == 1..MaxDeclared

GlobalsInit ==
  /\ globals = [count |-> 0, capacity |-> 0, entries |-> <<>>]
  /\ globals_map = <<>>
  /\ globals_run = [op |-> "none", name |-> NULL, result |-> "none"]

Written(map, name, value) ==
  [k \in DOMAIN map \cup {name} |-> IF k = name THEN value ELSE map[k]]

Ran(op, name, result) ==
  globals_run' = [op |-> op, name |-> name, result |-> result]

run_OP_GET_GLOBAL ==
  \E name \in TableKeys :
    /\ Ran("OP_GET_GLOBAL", name,
           IF table__get_in(globals, name).returned
           THEN "pushed" ELSE "INTERPRET_RUNTIME_ERROR")
    /\ UNCHANGED <<globals, globals_map>>

run_OP_DEFINE_GLOBAL ==
  \E name \in DeclaredNames, value \in TableValues :
    /\ globals' = table__set_in(globals, name, value)
    /\ globals_map' = Written(globals_map, name, value)
    /\ Ran("OP_DEFINE_GLOBAL", name, "defined")

\* an OP_SET_GLOBAL that leaves the key that table__set added
set_undefined_global_kept(t, name, value) == table__set_in(t, name, value)

\* OP_SET_GLOBAL of a new key: the key that table__set added is deleted
set_undefined_global(t, name, value) ==
  table__delete_in(table__set_in(t, name, value), name)

run_OP_SET_GLOBAL ==
  \E name \in TableKeys, value \in TableValues :
    IF is_new_key(globals, name)
    THEN /\ globals' = set_undefined_global(globals, name, value)
         /\ Ran("OP_SET_GLOBAL", name, "INTERPRET_RUNTIME_ERROR")
         /\ UNCHANGED globals_map
    ELSE /\ globals' = table__set_in(globals, name, value)
         /\ globals_map' =
              IF name \in DOMAIN globals_map
              THEN Written(globals_map, name, value) ELSE globals_map
         /\ Ran("OP_SET_GLOBAL", name, "assigned")

(***************************************************************************)
(* SpecIndex: OP_GET_INDEX and OP_SET_INDEX on a receiver and an index     *)
(* that the code before them pushed.  There is one list; a number that no  *)
(* int holds has a field `kind`: "half" for v + 0.5, "nan" for NaN, "huge" *)
(* for an integral value past INT_MAX (v = 1) or before INT_MIN (v = -1).  *)
(*   ix       array: the elements of the list; value_stack; result         *)
(*   ix_run   the instruction executed last, its operands and the          *)
(*            elements the list had before                                 *)
(***************************************************************************)
VARIABLES ix, ix_run

index_vars == <<ix, ix_run>>

\* the longest list
MaxListLength == 3

INT_MAX == 2147483647

INT_MIN == (0 - INT_MAX) - 1

HALF_VALUE(n) == [t |-> "number", v |-> n, kind |-> "half"]

HUGE_VALUE(sign) == [t |-> "number", v |-> sign, kind |-> "huge"]

NAN_VALUE == [t |-> "number", v |-> 0, kind |-> "nan"]

TheList == OBJECT_VALUE("list", 1)

IndexReceivers ==
  {TheList, NIL_VALUE, NUMBER_VALUE(1), OBJECT_VALUE("string", 1)}

IndexValues ==
  {NUMBER_VALUE(n) : n \in (0 - MaxListLength - 2)..(MaxListLength + 1)}
    \cup {NUMBER_VALUE(INT_MAX), NUMBER_VALUE(INT_MIN), HUGE_VALUE(1),
          HUGE_VALUE(-1)}
    \cup {HALF_VALUE(n) : n \in {-2, -1, 0, 1}}
    \cup {NAN_VALUE, NIL_VALUE, BOOL_VALUE(TRUE), OBJECT_VALUE("string", 1)}

AssignedValues == {NIL_VALUE, NUMBER_VALUE(7)}

NoIndexRun ==
  [op |-> "none", receiver |-> NIL_VALUE, index |-> NIL_VALUE,
   value |-> NIL_VALUE, before |-> <<>>]

IndexInit ==
  /\ ix = [array |-> <<>>, value_stack |-> <<>>, result |-> "none"]
  /\ ix_run = NoIndexRun

IS_LIST(value) == value.t = "list"

\* raw is the value of an int
InIntRange(value) == "kind" \notin DOMAIN value

\* raw has an integral value
Integral(value) == InIntRange(value) \/ value.kind = "huge"

\* (int)raw: the value truncated toward zero if an int can hold it; the
\* behaviour is undefined if not, and any int may come out
IntOf(value) ==
  IF InIntRange(value) THEN {value.v}
  ELSE IF value.kind = "half"
  THEN {IF value.v >= 0 THEN value.v ELSE value.v + 1}
  ELSE {INT_MIN, INT_MAX, -1, 0, 1}

\* raw != (double)integer
DiffersFromInt(value, integer) == ~InIntRange(value) \/ value.v # integer

\* the results that validate_integer_index may give: [valid, result]
validate_integer_index(index) ==
  IF index.t # "number" THEN {[valid |-> FALSE, result |-> 0]}
  ELSE {IF DiffersFromInt(index, integer)
        THEN [valid |-> FALSE, result |-> 0]
        ELSE [valid |-> TRUE, result |-> integer] :
          integer \in IntOf(index)}

\* a normalize_list_index that does not count from the end
normalize_list_index_from_start(index, count) ==
  IF count = 0 THEN [valid |-> FALSE, result |-> 0]
  ELSE LET normalized == index
       IN IF normalized < 0 \/ normalized >= count
          THEN [valid |-> FALSE, result |-> 0]
          ELSE [valid |-> TRUE, result |-> normalized]

normalize_list_index(index, count) ==
  IF count = 0 THEN [valid |-> FALSE, result |-> 0]
  ELSE LET normalized == IF index < 0 THEN count + index ELSE index
       IN IF normalized < 0 \/ normalized >= count
          THEN [valid |-> FALSE, result |-> 0]
          ELSE [valid |-> TRUE, result |-> normalized]

\* the results that resolve_list_index may give
resolve_list_index(receiver, index_value, array) ==
  IF ~IS_LIST(receiver) THEN {[valid |-> FALSE, result |-> 0]}
  ELSE {IF ~validated.valid THEN validated
        ELSE normalize_list_index(validated.result, Len(array)) :
          validated \in validate_integer_index(index_value)}

\* runtime_error_with_token, and run returns
IndexError(m) ==
  [m EXCEPT !.value_stack = <<>>, !.result = "INTERPRET_RUNTIME_ERROR"]

IndexRunning == ix.result # "INTERPRET_RUNTIME_ERROR"

\* list.append(value), the stack empty
index_append ==
  /\ IndexRunning
  /\ ix.value_stack = <<>>
  /\ Len(ix.array) < MaxListLength
  /\ ix' = [ix EXCEPT !.array = Append(@, NUMBER_VALUE(10 * (Len(@) + 1))),
                      !.result = "none"]
  /\ ix_run' = NoIndexRun

\* the receiver and the index are pushed, and a value if one is assigned
index_operands ==
  /\ IndexRunning
  /\ ix.value_stack = <<>>
  /\ \E receiver \in IndexReceivers, index \in IndexValues,
        assigned_value \in SUBSET AssignedValues :
       /\ Cardinality(assigned_value) <= 1
       /\ ix' = [ix EXCEPT
                   !.value_stack =
                      <<receiver, index>>
                        \o (IF assigned_value = {} THEN <<>>
                            ELSE <<CHOOSE value \in assigned_value : TRUE>>),
                   !.result = "none"]
  /\ ix_run' = NoIndexRun

run_OP_GET_INDEX ==
  /\ IndexRunning
  /\ Len(ix.value_stack) = 2
  /\ \E resolved \in
          resolve_list_index(ix.value_stack[1], ix.value_stack[2], ix.array) :
       ix' = IF ~resolved.valid THEN IndexError(ix)
             ELSE [ix EXCEPT !.value_stack = <<ix.array[resolved.result + 1]>>,
                             !.result = "pushed"]
  /\ ix_run' = [op |-> "OP_GET_INDEX", receiver |-> ix.value_stack[1],
                index |-> ix.value_stack[2], value |-> NIL_VALUE,
                before |-> ix.array]

run_OP_SET_INDEX ==
  /\ IndexRunning
  /\ Len(ix.value_stack) = 3
  /\ \E resolved \in
          resolve_list_index(ix.value_stack[1], ix.value_stack[2], ix.array) :
       ix' = IF ~resolved.valid THEN IndexError(ix)
             ELSE [ix EXCEPT
                     !.array[resolved.result + 1] = ix.value_stack[3],
                     !.value_stack = <<ix.value_stack[3]>>,
                     !.result = "pushed"]
  /\ ix_run' = [op |-> "OP_SET_INDEX", receiver |-> ix.value_stack[1],
                index |-> ix.value_stack[2], value |-> ix.value_stack[3],
                before |-> ix.array]

\* OP_POP, or the next line after an error
index_pop ==
  /\ ix.result \in {"pushed", "INTERPRET_RUNTIME_ERROR"}
  /\ ix' = [ix EXCEPT !.value_stack = <<>>, !.result = "none"]
  /\ ix_run' = NoIndexRun

(***************************************************************************)
(* SpecCalls: the REPL lines of SpecVM, with the calls followed from       *)
(* OP_CALL to the return.                                                  *)
(*   calls    history variable.  open: the calls whose frame is on the     *)
(*            frame stack, each with the callee, the number of arguments   *)
(*            and the value stack of just before its OP_CALL; returned:    *)
(*            the call that returned in the latest step, if one did, and   *)
(*            its result                                                   *)
(***************************************************************************)
VARIABLES calls

calls_vars == <<calls>>

NoCall == [callee |-> "none", args_count |-> 0, stack |-> <<>>]

NoReturn == [done |-> FALSE, call |-> NoCall, result |-> NIL_VALUE]

CallsInit == calls = [open |-> <<>>, returned |-> NoReturn]

\* the live part of the value stack
LiveStack(m) == SubSeq(m.value_stack, 1, m.stack_free_slot)

\* where call_value ends for the callee: a bound method leads to its method
RECURSIVE Dispatched(_, _)
Dispatched(m, callee) ==
  IF callee.t = "bound_method"
  THEN Dispatched(m, m.bound_methods[callee.v].method)
  ELSE callee.t

\* the call that the OP_CALL about to be executed makes
CallMade(m) ==
  [callee |-> Dispatched(m, peek_value(m, READ_BYTE(m, 1))),
   args_count |-> READ_BYTE(m, 1), stack |-> LiveStack(m)]

\* the calls after a step of the VM from m to after
CallsAfter(m, after) ==
  IF ~m.running \/ ~after.running \/ after.error # "none"
  THEN [open |-> <<>>, returned |-> NoReturn]
  ELSE IF READ_BYTE(m, 0) = "OP_CALL"
  THEN IF Len(after.frames) > Len(m.frames)
       THEN [open |-> Append(calls.open, CallMade(m)), returned |-> NoReturn]
       ELSE [open |-> calls.open,
             returned |-> [done |-> TRUE, call |-> CallMade(m),
                           result |-> peek_value(after, 0)]]
  ELSE IF READ_BYTE(m, 0) = "OP_RETURN"
  THEN [open |-> Pop(calls.open, 1),
        returned |-> [done |-> TRUE, call |-> Top(calls.open),
                      result |-> peek_value(m, 0)]]
  ELSE [open |-> calls.open, returned |-> NoReturn]

Followed == calls' = CallsAfter(vm, vm')

vm__interpret_followed == vm__interpret /\ Followed

OP_CALL_followed == OP_CALL /\ Followed

OP_RETURN_followed == OP_RETURN /\ Followed

\* an instruction that neither calls nor returns
run_followed ==
  /\ \/ OP_LOAD_CONSTANT
     \/ OP_NIL
     \/ OP_POP
     \/ OP_GET_LOCAL
     \/ OP_SET_LOCAL
     \/ OP_GET_UPVALUE
     \/ OP_SET_UPVALUE
     \/ OP_GET_GLOBAL
     \/ OP_DEFINE_GLOBAL
     \/ OP_SET_GLOBAL
     \/ OP_GET_PROPERTY
     \/ OP_ADD
     \/ OP_NEGATE
     \/ OP_PRINTLN
     \/ OP_NEW_CLOSURE
     \/ OP_CLOSE_UPVALUE
  /\ Followed

(***************************************************************************)
(* The specifications.  Each one runs one part of the program and leaves   *)
(* the variables of the other parts as they were initialised.              *)
(***************************************************************************)
\* the variables of the interpreter
main_vars == <<gc_vars, str_vars, vm_vars, call_vars, expr_vars>>

\* the variables of the smaller parts
\* the variables of the parts before the compile contexts
other_vars == <<toy_vars, table_vars, memory_vars, nursery_vars>>

\* the variables of the parts of the compiler taken alone
late_vars ==
  <<contexts_vars, upvalue_vars, assign_vars, jumps_vars, globals_vars,
    index_vars, calls_vars>>

aux_vars == <<other_vars, late_vars>>

vars == <<gc_vars, str_vars, vm_vars, call_vars, expr_vars, aux_vars>>

Init == GCInit /\ StrInit /\ VMInit /\ CallInit /\ ExprInit /\ ToyInit
          /\ TableInit /\ MemoryInit /\ NurseryInit /\ ContextsInit
          /\ UpvaluesInit /\ AssignInit /\ JumpsInit /\ GlobalsInit
          /\ IndexInit /\ CallsInit


GCNext ==
  \/ string__copy
       /\ UNCHANGED <<str_vars, vm_vars, call_vars, expr_vars, aux_vars>>
  \/ string__take_ownership
       /\ UNCHANGED <<str_vars, vm_vars, call_vars, expr_vars, aux_vars>>
  \/ open_object_nursery
       /\ UNCHANGED <<str_vars, vm_vars, call_vars, expr_vars, aux_vars>>
  \/ close_object_nursery
       /\ UNCHANGED <<str_vars, vm_vars, call_vars, expr_vars, aux_vars>>
  \/ new_string
       /\ UNCHANGED <<str_vars, vm_vars, call_vars, expr_vars, aux_vars>>
  \/ native_function__new
       /\ UNCHANGED <<str_vars, vm_vars, call_vars, expr_vars, aux_vars>>
  \/ class__new
       /\ UNCHANGED <<str_vars, vm_vars, call_vars, expr_vars, aux_vars>>
  \/ intern_string
       /\ UNCHANGED <<str_vars, vm_vars, call_vars, expr_vars, aux_vars>>
  \/ set_init_string
       /\ UNCHANGED <<str_vars, vm_vars, call_vars, expr_vars, aux_vars>>
  \/ set_docstring
       /\ UNCHANGED <<str_vars, vm_vars, call_vars, expr_vars, aux_vars>>
  \/ define_native_function
       /\ UNCHANGED <<str_vars, vm_vars, call_vars, expr_vars, aux_vars>>
  \/ define_method
       /\ UNCHANGED <<str_vars, vm_vars, call_vars, expr_vars, aux_vars>>
  \/ set_string_class
       /\ UNCHANGED <<str_vars, vm_vars, call_vars, expr_vars, aux_vars>>
  \/ compiler__compile_gc
       /\ UNCHANGED <<str_vars, vm_vars, call_vars, expr_vars, aux_vars>>
  \/ store_identifier_constant_gc
       /\ UNCHANGED <<str_vars, vm_vars, call_vars, expr_vars, aux_vars>>
  \/ bytecode__store_constant
       /\ UNCHANGED <<str_vars, vm_vars, call_vars, expr_vars, aux_vars>>
  \/ compile_error
       /\ UNCHANGED <<str_vars, vm_vars, call_vars, expr_vars, aux_vars>>
  \/ vm__interpret_gc
       /\ UNCHANGED <<str_vars, vm_vars, call_vars, expr_vars, aux_vars>>
  \/ OP_LOAD_CONSTANT_gc
       /\ UNCHANGED <<str_vars, vm_vars, call_vars, expr_vars, aux_vars>>
  \/ OP_POP_gc
       /\ UNCHANGED <<str_vars, vm_vars, call_vars, expr_vars, aux_vars>>
  \/ OP_ADD_gc
       /\ UNCHANGED <<str_vars, vm_vars, call_vars, expr_vars, aux_vars>>
  \/ concatenate
       /\ UNCHANGED <<str_vars, vm_vars, call_vars, expr_vars, aux_vars>>
  \/ OP_DEFINE_GLOBAL_gc
       /\ UNCHANGED <<str_vars, vm_vars, call_vars, expr_vars, aux_vars>>
  \/ OP_RETURN_gc
       /\ UNCHANGED <<str_vars, vm_vars, call_vars, expr_vars, aux_vars>>
  \/ repl_gc /\ UNCHANGED <<str_vars, vm_vars, call_vars, expr_vars, aux_vars>>

StrNext ==
  \/ string_literal
       /\ UNCHANGED <<gc_vars, vm_vars, call_vars, expr_vars, aux_vars>>
  \/ OP_ADD_str
       /\ UNCHANGED <<gc_vars, vm_vars, call_vars, expr_vars, aux_vars>>
  \/ OP_EQUAL_str
       /\ UNCHANGED <<gc_vars, vm_vars, call_vars, expr_vars, aux_vars>>
  \/ OP_POP_str
       /\ UNCHANGED <<gc_vars, vm_vars, call_vars, expr_vars, aux_vars>>

VMNext ==
  \/ vm__interpret
       /\ UNCHANGED <<gc_vars, str_vars, call_vars, expr_vars, aux_vars>>
  \/ OP_LOAD_CONSTANT
       /\ UNCHANGED <<gc_vars, str_vars, call_vars, expr_vars, aux_vars>>
  \/ OP_NIL /\ UNCHANGED <<gc_vars, str_vars, call_vars, expr_vars, aux_vars>>
  \/ OP_POP /\ UNCHANGED <<gc_vars, str_vars, call_vars, expr_vars, aux_vars>>
  \/ OP_GET_LOCAL
       /\ UNCHANGED <<gc_vars, str_vars, call_vars, expr_vars, aux_vars>>
  \/ OP_SET_LOCAL
       /\ UNCHANGED <<gc_vars, str_vars, call_vars, expr_vars, aux_vars>>
  \/ OP_GET_UPVALUE
       /\ UNCHANGED <<gc_vars, str_vars, call_vars, expr_vars, aux_vars>>
  \/ OP_SET_UPVALUE
       /\ UNCHANGED <<gc_vars, str_vars, call_vars, expr_vars, aux_vars>>
  \/ OP_GET_GLOBAL
       /\ UNCHANGED <<gc_vars, str_vars, call_vars, expr_vars, aux_vars>>
  \/ OP_DEFINE_GLOBAL
       /\ UNCHANGED <<gc_vars, str_vars, call_vars, expr_vars, aux_vars>>
  \/ OP_SET_GLOBAL
       /\ UNCHANGED <<gc_vars, str_vars, call_vars, expr_vars, aux_vars>>
  \/ OP_GET_PROPERTY
       /\ UNCHANGED <<gc_vars, str_vars, call_vars, expr_vars, aux_vars>>
  \/ OP_ADD /\ UNCHANGED <<gc_vars, str_vars, call_vars, expr_vars, aux_vars>>
  \/ OP_NEGATE
       /\ UNCHANGED <<gc_vars, str_vars, call_vars, expr_vars, aux_vars>>
  \/ OP_PRINTLN
       /\ UNCHANGED <<gc_vars, str_vars, call_vars, expr_vars, aux_vars>>
  \/ OP_CALL /\ UNCHANGED <<gc_vars, str_vars, call_vars, expr_vars, aux_vars>>
  \/ OP_NEW_CLOSURE
       /\ UNCHANGED <<gc_vars, str_vars, call_vars, expr_vars, aux_vars>>
  \/ OP_CLOSE_UPVALUE
       /\ UNCHANGED <<gc_vars, str_vars, call_vars, expr_vars, aux_vars>>
  \/ OP_RETURN
       /\ UNCHANGED <<gc_vars, str_vars, call_vars, expr_vars, aux_vars>>

CallNext ==
  \/ is_valid_call_checked
       /\ UNCHANGED <<gc_vars, str_vars, vm_vars, expr_vars, aux_vars>>
  \/ call_closure_checked
       /\ UNCHANGED <<gc_vars, str_vars, vm_vars, expr_vars, aux_vars>>
  \/ call_native_checked
       /\ UNCHANGED <<gc_vars, str_vars, vm_vars, expr_vars, aux_vars>>

DeepNext ==
  \/ vm__interpret_once
       /\ UNCHANGED <<gc_vars, str_vars, call_vars, expr_vars, aux_vars>>
  \/ OP_NIL /\ UNCHANGED <<gc_vars, str_vars, call_vars, expr_vars, aux_vars>>
  \/ OP_GET_GLOBAL
       /\ UNCHANGED <<gc_vars, str_vars, call_vars, expr_vars, aux_vars>>
  \/ OP_DEFINE_GLOBAL
       /\ UNCHANGED <<gc_vars, str_vars, call_vars, expr_vars, aux_vars>>
  \/ OP_CALL /\ UNCHANGED <<gc_vars, str_vars, call_vars, expr_vars, aux_vars>>
  \/ OP_NEW_CLOSURE
       /\ UNCHANGED <<gc_vars, str_vars, call_vars, expr_vars, aux_vars>>

CaptureNext ==
  \/ vm__interpret_capture
       /\ UNCHANGED <<gc_vars, str_vars, call_vars, expr_vars, aux_vars>>
  \/ OP_NEW_CLOSURE
       /\ UNCHANGED <<gc_vars, str_vars, call_vars, expr_vars, aux_vars>>
  \/ OP_DEFINE_GLOBAL
       /\ UNCHANGED <<gc_vars, str_vars, call_vars, expr_vars, aux_vars>>
  \/ OP_NIL /\ UNCHANGED <<gc_vars, str_vars, call_vars, expr_vars, aux_vars>>
  \/ OP_RETURN
       /\ UNCHANGED <<gc_vars, str_vars, call_vars, expr_vars, aux_vars>>

SharedNext ==
  \/ vm__interpret_shared
       /\ UNCHANGED <<gc_vars, str_vars, call_vars, expr_vars, aux_vars>>
  \/ OP_LOAD_CONSTANT
       /\ UNCHANGED <<gc_vars, str_vars, call_vars, expr_vars, aux_vars>>
  \/ OP_NIL /\ UNCHANGED <<gc_vars, str_vars, call_vars, expr_vars, aux_vars>>
  \/ OP_POP /\ UNCHANGED <<gc_vars, str_vars, call_vars, expr_vars, aux_vars>>
  \/ OP_GET_LOCAL
       /\ UNCHANGED <<gc_vars, str_vars, call_vars, expr_vars, aux_vars>>
  \/ OP_GET_UPVALUE
       /\ UNCHANGED <<gc_vars, str_vars, call_vars, expr_vars, aux_vars>>
  \/ OP_SET_UPVALUE
       /\ UNCHANGED <<gc_vars, str_vars, call_vars, expr_vars, aux_vars>>
  \/ OP_GET_GLOBAL
       /\ UNCHANGED <<gc_vars, str_vars, call_vars, expr_vars, aux_vars>>
  \/ OP_DEFINE_GLOBAL
       /\ UNCHANGED <<gc_vars, str_vars, call_vars, expr_vars, aux_vars>>
  \/ OP_SET_GLOBAL
       /\ UNCHANGED <<gc_vars, str_vars, call_vars, expr_vars, aux_vars>>
  \/ OP_ADD /\ UNCHANGED <<gc_vars, str_vars, call_vars, expr_vars, aux_vars>>
  \/ OP_CALL /\ UNCHANGED <<gc_vars, str_vars, call_vars, expr_vars, aux_vars>>
  \/ OP_NEW_CLOSURE
       /\ UNCHANGED <<gc_vars, str_vars, call_vars, expr_vars, aux_vars>>
  \/ OP_CLOSE_UPVALUE
       /\ UNCHANGED <<gc_vars, str_vars, call_vars, expr_vars, aux_vars>>
  \/ OP_RETURN
       /\ UNCHANGED <<gc_vars, str_vars, call_vars, expr_vars, aux_vars>>

ConstantsNext ==
  \/ vm__interpret_constants
       /\ UNCHANGED <<gc_vars, str_vars, call_vars, expr_vars, aux_vars>>
  \/ OP_LOAD_CONSTANT
       /\ UNCHANGED <<gc_vars, str_vars, call_vars, expr_vars, aux_vars>>
  \/ OP_POP /\ UNCHANGED <<gc_vars, str_vars, call_vars, expr_vars, aux_vars>>
  \/ OP_PRINTLN
       /\ UNCHANGED <<gc_vars, str_vars, call_vars, expr_vars, aux_vars>>
  \/ OP_NIL /\ UNCHANGED <<gc_vars, str_vars, call_vars, expr_vars, aux_vars>>
  \/ OP_RETURN
       /\ UNCHANGED <<gc_vars, str_vars, call_vars, expr_vars, aux_vars>>

ExprNext ==
  \/ vm__interpret_line /\ UNCHANGED <<gc_vars, str_vars, call_vars, aux_vars>>
  \/ Run(OP_LOAD_CONSTANT, "OP_LOAD_CONSTANT")
       /\ UNCHANGED <<gc_vars, str_vars, call_vars, aux_vars>>
  \/ Run(OP_NIL, "OP_NIL")
       /\ UNCHANGED <<gc_vars, str_vars, call_vars, aux_vars>>
  \/ Run(OP_TRUE, "OP_TRUE")
       /\ UNCHANGED <<gc_vars, str_vars, call_vars, aux_vars>>
  \/ Run(OP_FALSE, "OP_FALSE")
       /\ UNCHANGED <<gc_vars, str_vars, call_vars, aux_vars>>
  \/ Run(OP_POP, "OP_POP")
       /\ UNCHANGED <<gc_vars, str_vars, call_vars, aux_vars>>
  \/ Run(OP_ADD, "OP_ADD")
       /\ UNCHANGED <<gc_vars, str_vars, call_vars, aux_vars>>
  \/ Run(OP_SUBTRACT, "OP_SUBTRACT")
       /\ UNCHANGED <<gc_vars, str_vars, call_vars, aux_vars>>
  \/ Run(OP_MULTIPLY, "OP_MULTIPLY")
       /\ UNCHANGED <<gc_vars, str_vars, call_vars, aux_vars>>
  \/ Run(OP_NEGATE, "OP_NEGATE")
       /\ UNCHANGED <<gc_vars, str_vars, call_vars, aux_vars>>
  \/ Run(OP_JUMP_IF_FALSE, "OP_JUMP_IF_FALSE")
       /\ UNCHANGED <<gc_vars, str_vars, call_vars, aux_vars>>
  \/ Run(OP_JUMP, "OP_JUMP")
       /\ UNCHANGED <<gc_vars, str_vars, call_vars, aux_vars>>
  \/ Run(OP_PRINTLN, "OP_PRINTLN")
       /\ UNCHANGED <<gc_vars, str_vars, call_vars, aux_vars>>
  \/ Run(OP_RETURN, "OP_RETURN")
       /\ UNCHANGED <<gc_vars, str_vars, call_vars, aux_vars>>

ToyNext ==
  \/ list__append
       /\ UNCHANGED <<main_vars, table_vars, memory_vars, nursery_vars,
                      late_vars>>
  \/ list__prepend
       /\ UNCHANGED <<main_vars, table_vars, memory_vars, nursery_vars,
                      late_vars>>
  \/ list__delete
       /\ UNCHANGED <<main_vars, table_vars, memory_vars, nursery_vars,
                      late_vars>>

TableNext ==
  \/ table__set
       /\ UNCHANGED <<main_vars, toy_vars, memory_vars, nursery_vars,
                      late_vars>>
  \/ table__delete
       /\ UNCHANGED <<main_vars, toy_vars, memory_vars, nursery_vars,
                      late_vars>>

MemoryNext ==
  \/ memory__init_gc
       /\ UNCHANGED <<main_vars, toy_vars, table_vars, nursery_vars,
                      late_vars>>
  \/ memory__reallocate_block
       /\ UNCHANGED <<main_vars, toy_vars, table_vars, nursery_vars,
                      late_vars>>

NurseryNext ==
  \/ nursery_open
       /\ UNCHANGED <<main_vars, toy_vars, table_vars, memory_vars,
                      late_vars>>
  \/ nursery_close
       /\ UNCHANGED <<main_vars, toy_vars, table_vars, memory_vars,
                      late_vars>>
  \/ nursery_allocate
       /\ UNCHANGED <<main_vars, toy_vars, table_vars, memory_vars,
                      late_vars>>

ContextsNext ==
  \/ compiler__compile_begin
       /\ UNCHANGED <<main_vars, other_vars, upvalue_vars, assign_vars,
                    jumps_vars, globals_vars, index_vars,
                    calls_vars>>
  \/ function_begin
       /\ UNCHANGED <<main_vars, other_vars, upvalue_vars, assign_vars,
                    jumps_vars, globals_vars, index_vars,
                    calls_vars>>
  \/ store_constant_in_context
       /\ UNCHANGED <<main_vars, other_vars, upvalue_vars, assign_vars,
                    jumps_vars, globals_vars, index_vars,
                    calls_vars>>
  \/ function_end
       /\ UNCHANGED <<main_vars, other_vars, upvalue_vars, assign_vars,
                    jumps_vars, globals_vars, index_vars,
                    calls_vars>>
  \/ compiler__compile_end
       /\ UNCHANGED <<main_vars, other_vars, upvalue_vars, assign_vars,
                    jumps_vars, globals_vars, index_vars,
                    calls_vars>>
  \/ run_allocate
       /\ UNCHANGED <<main_vars, other_vars, upvalue_vars, assign_vars,
                    jumps_vars, globals_vars, index_vars,
                    calls_vars>>
  \/ run_end
       /\ UNCHANGED <<main_vars, other_vars, upvalue_vars, assign_vars,
                    jumps_vars, globals_vars, index_vars,
                    calls_vars>>

UpvaluesNext ==
  \/ upv_var_declaration
       /\ UNCHANGED <<main_vars, other_vars, contexts_vars, assign_vars,
                    jumps_vars, globals_vars, index_vars,
                    calls_vars>>
  \/ upv_begin_scope
       /\ UNCHANGED <<main_vars, other_vars, contexts_vars, assign_vars,
                    jumps_vars, globals_vars, index_vars,
                    calls_vars>>
  \/ upv_function_begin
       /\ UNCHANGED <<main_vars, other_vars, contexts_vars, assign_vars,
                    jumps_vars, globals_vars, index_vars,
                    calls_vars>>
  \/ upv_function_end
       /\ UNCHANGED <<main_vars, other_vars, contexts_vars, assign_vars,
                    jumps_vars, globals_vars, index_vars,
                    calls_vars>>
  \/ upv_named_variable
       /\ UNCHANGED <<main_vars, other_vars, contexts_vars, assign_vars,
                    jumps_vars, globals_vars, index_vars,
                    calls_vars>>

AssignNext ==
  \/ assign_read
       /\ UNCHANGED <<main_vars, other_vars, contexts_vars, upvalue_vars,
                    jumps_vars, globals_vars, index_vars,
                    calls_vars>>
  \/ assign_compile
       /\ UNCHANGED <<main_vars, other_vars, contexts_vars, upvalue_vars,
                    jumps_vars, globals_vars, index_vars,
                    calls_vars>>

JumpsNext ==
  \/ jumps_body
       /\ UNCHANGED <<main_vars, other_vars, contexts_vars, upvalue_vars,
                    assign_vars, globals_vars, index_vars,
                    calls_vars>>
  \/ jumps_placeholder
       /\ UNCHANGED <<main_vars, other_vars, contexts_vars, upvalue_vars,
                    assign_vars, globals_vars, index_vars,
                    calls_vars>>
  \/ jumps_patch
       /\ UNCHANGED <<main_vars, other_vars, contexts_vars, upvalue_vars,
                    assign_vars, globals_vars, index_vars,
                    calls_vars>>
  \/ jumps_loop_start
       /\ UNCHANGED <<main_vars, other_vars, contexts_vars, upvalue_vars,
                    assign_vars, globals_vars, index_vars,
                    calls_vars>>
  \/ jumps_loop
       /\ UNCHANGED <<main_vars, other_vars, contexts_vars, upvalue_vars,
                    assign_vars, globals_vars, index_vars,
                    calls_vars>>

GlobalsNext ==
  \/ run_OP_GET_GLOBAL
       /\ UNCHANGED <<main_vars, other_vars, contexts_vars, upvalue_vars,
                    assign_vars, jumps_vars, index_vars,
                    calls_vars>>
  \/ run_OP_DEFINE_GLOBAL
       /\ UNCHANGED <<main_vars, other_vars, contexts_vars, upvalue_vars,
                    assign_vars, jumps_vars, index_vars,
                    calls_vars>>
  \/ run_OP_SET_GLOBAL
       /\ UNCHANGED <<main_vars, other_vars, contexts_vars, upvalue_vars,
                    assign_vars, jumps_vars, index_vars,
                    calls_vars>>

IndexNext ==
  \/ index_append
       /\ UNCHANGED <<main_vars, other_vars, contexts_vars, upvalue_vars,
                    assign_vars, jumps_vars, globals_vars,
                    calls_vars>>
  \/ index_operands
       /\ UNCHANGED <<main_vars, other_vars, contexts_vars, upvalue_vars,
                    assign_vars, jumps_vars, globals_vars,
                    calls_vars>>
  \/ run_OP_GET_INDEX
       /\ UNCHANGED <<main_vars, other_vars, contexts_vars, upvalue_vars,
                    assign_vars, jumps_vars, globals_vars,
                    calls_vars>>
  \/ run_OP_SET_INDEX
       /\ UNCHANGED <<main_vars, other_vars, contexts_vars, upvalue_vars,
                    assign_vars, jumps_vars, globals_vars,
                    calls_vars>>
  \/ index_pop
       /\ UNCHANGED <<main_vars, other_vars, contexts_vars, upvalue_vars,
                    assign_vars, jumps_vars, globals_vars,
                    calls_vars>>

\* what a step of SpecCalls leaves as it is
calls_rest ==
  <<gc_vars, str_vars, call_vars, expr_vars, other_vars, contexts_vars,
    upvalue_vars, assign_vars, jumps_vars, globals_vars, index_vars>>

CallsNext ==
  \/ vm__interpret_followed
       /\ UNCHANGED calls_rest
  \/ OP_CALL_followed
       /\ UNCHANGED calls_rest
  \/ OP_RETURN_followed
       /\ UNCHANGED calls_rest
  \/ run_followed
       /\ UNCHANGED calls_rest

SpecGC == Init /\ [][GCNext]_vars

SpecStr == Init /\ [][StrNext]_vars

SpecVM == Init /\ [][VMNext]_vars

SpecCall == Init /\ [][CallNext]_vars

SpecDeep == Init /\ [][DeepNext]_vars

SpecCapture == Init /\ [][CaptureNext]_vars

SpecConstants == Init /\ [][ConstantsNext]_vars

SpecShared == Init /\ [][SharedNext]_vars

SpecExpr == Init /\ [][ExprNext]_vars

SpecToy == Init /\ [][ToyNext]_vars

SpecTable == Init /\ [][TableNext]_vars

SpecMemory == Init /\ [][MemoryNext]_vars

SpecNursery == Init /\ [][NurseryNext]_vars

SpecContexts == Init /\ [][ContextsNext]_vars

SpecUpvalues == Init /\ [][UpvaluesNext]_vars

SpecAssign == Init /\ [][AssignNext]_vars

SpecJumps == Init /\ [][JumpsNext]_vars

SpecGlobals == Init /\ [][GlobalsNext]_vars

SpecIndex == Init /\ [][IndexNext]_vars

SpecCalls == Init /\ [][CallsNext]_vars

(***************************************************************************)
(* Properties of the collector and the nursery.                            *)
(***************************************************************************)
\* C1: after a GC cycle every object that was reachable from the roots when
\* the cycle started is still linked in vm->objects, and no object that
\* survived references a freed object
C1_GcSound ==
  last_gc.ran => (last_gc.lost = {} /\ DanglingHolders(mem) = {})

\* C2: while a nursery scope is open, no object allocated since the
\* outermost memory__open_object_nursery has been freed by a collection
C2_NurseryProtects ==
  mem.object_nursery_nested_scopes > 0 => mem.nursery_lost = {}

\* C3: whenever object_nursery_end is not NULL, it is an object linked in
\* vm->objects, so that the nursery region is a prefix of the objects list
C3_NurseryEndLinked ==
  mem.object_nursery_end # NULL
    => mem.object_nursery_end \in Range(mem.objects)

\* C15: after a GC cycle every key left in vm->interned_strings is a string
\* that was reachable from a root other than the table and is still linked
\* in vm->objects (so no string the sweep freed is still a key), with
\* is_alive false
C15_InternedKeysSurvive ==
  last_gc.ran => (last_gc.weak_keys = {} /\ last_gc.marks_left = {})

\* C16: is_alive is false on every object linked in vm->objects, at the end
\* of a GC cycle and on a new object, so that every cycle starts with all
\* objects unmarked
C16_AllUnmarkedBetweenCycles ==
  /\ last_gc.ran => last_gc.marks_left = {}
  /\ \A a \in Range(mem.objects) : ~mem.heap[a].is_alive

C16_Witness ==
  /\ last_gc.ran
  /\ ~mem.crashed
  /\ Len(mem.objects) > 2

\* the strings in use: the constants of the program and the operands on
\* the value stack
AliveStrings ==
  {i \in DOMAIN str_heap : str_heap[i].constant} \cup Range(str_stack)

\* C6: two strings alive together with equal contents are the same
\* ObjectString, whether made from literals or at run time, so that OP_EQUAL
\* on strings of equal contents yields true
C6_EqualContentsOneObject ==
  /\ \A i, j \in AliveStrings :
       str_heap[i].chars = str_heap[j].chars => i = j
  /\ (str_equal.done
        /\ str_heap[str_equal.a].chars = str_heap[str_equal.b].chars)
       => str_equal.result

\* the open-upvalue list of the VM, from its head
OpenUpvalues == OpenList(vm, vm.open_upvalues)

\* C4: in every state the open-upvalue list is strictly descending by
\* location, so no two of its upvalues have the same location, and a
\* capture_upvalue of a slot that has an open upvalue returns that upvalue
\* instead of a new one.
C4_OpenUpvaluesDescending ==
  /\ \A i \in 1..(Len(OpenUpvalues) - 1) :
       vm.upvalues[OpenUpvalues[i]].location
         > vm.upvalues[OpenUpvalues[i + 1]].location
  /\ \A i, j \in 1..Len(OpenUpvalues) :
       vm.upvalues[OpenUpvalues[i]].location
         = vm.upvalues[OpenUpvalues[j]].location => i = j
  /\ vm.captured.open_before # {}
       => vm.captured.returned \in vm.captured.open_before

\* two upvalues are open and the latest capture_upvalue was of a slot that
\* had an open upvalue
C4_Witness ==
  /\ Len(OpenUpvalues) >= 2
  /\ vm.captured.open_before # {}
  /\ vm.captured.returned \in vm.captured.open_before

\* C5: what OP_GET_UPVALUE reads in a closure is the last value written to
\* the captured variable, by the enclosing function or through an upvalue,
\* before and after the variable is closed.
C5_ClosureSeesLastWrite ==
  vm.upvalue_read.done => vm.upvalue_read.value = vm.upvalue_read.written

\* C7: when vm__interpret has returned INTERPRET_OK the value stack and the
\* frame stack are empty.
C7_OkLeavesEmptyStacks ==
  vm.result = "INTERPRET_OK" => vm.stack_free_slot = 0 /\ vm.frames = <<>>

\* C8: in a program that raised no runtime error, when a top-level
\* declaration has just ended the value stack holds nothing but slot 0 of
\* the script, its closure.
C8_StackEmptyAfterStatement ==
  (/\ vm.running
   /\ vm.error = "none"
   /\ Len(vm.frames) = 1
   /\ top_frame(vm).ip \in vm.ends)
    => vm.stack_free_slot = 1

\* C9: once a runtime error is raised the value stack, the frame stack and
\* the open-upvalue list are empty and vm__interpret returns
\* INTERPRET_RUNTIME_ERROR.
C9_RuntimeErrorResetsVM ==
  vm.error # "none"
    => /\ vm.stack_free_slot = 0
       /\ vm.frames = <<>>
       /\ vm.open_upvalues = NULL
       /\ vm.result = "INTERPRET_RUNTIME_ERROR"

\* C10: a runtime error, an index out of range given to the list method `at`
\* included, ends run(): vm__interpret returns INTERPRET_RUNTIME_ERROR and no
\* instruction is executed after the failing one.
C10_RuntimeErrorAborts ==
  vm.error # "none"
    => /\ ~vm.running
       /\ ~vm.continued
       /\ vm.result = "INTERPRET_RUNTIME_ERROR"

\* the slots of the value stack that are in use
LiveSlots == 1..vm.stack_free_slot

\* C11: whenever run() is between two instructions no slot of the value
\* stack in use holds the Error sentinel, also right after a native function
\* has returned it.
C11_NoErrorSentinelOnStack ==
  vm.running => \A slot \in LiveSlots : vm.value_stack[slot] # ERROR_VALUE

\* the number of trailing parameters of a callable that have a default
TrailingDefaults(callable) ==
  IF callable.parameters.null THEN 0
  ELSE CHOOSE k \in 0..callable.arity :
         /\ \A i \in (callable.arity - k + 1)..callable.arity :
              callable.parameters.at[i].default_value # NULL
         /\ k < callable.arity
              => callable.parameters.at[callable.arity - k].default_value
                   = NULL

\* C12: a call with n arguments of a callable of arity A and minimal arity M
\* (A minus the number of trailing parameters with a default) passes the
\* arity check exactly when M <= n <= A; any other n is rejected, raises a
\* runtime error and the callee is not entered.
C12_ArityCheck ==
  call_check.done =>
    /\ call_check.rejected
         <=> ~(/\ call_check.callable.arity
                    - TrailingDefaults(call_check.callable)
                    <= call_check.args_count
               /\ call_check.args_count <= call_check.callable.arity)
    /\ call_check.rejected => ~call_check.valid /\ ~call_check.invoked
    /\ (call_check.rejected /\ call_check.kind # "check")
         => call_check.raised
    /\ (/\ ~call_check.rejected
        /\ call_check.kind # "check"
        /\ call_check.frames_count < FRAMES_MAX)
         => call_check.invoked /\ ~call_check.raised

\* a call with fewer arguments than parameters was accepted: the missing
\* ones have defaults
C12_Witness ==
  /\ call_check.done
  /\ call_check.valid
  /\ call_check.args_count < call_check.callable.arity
\* a call instruction is about to be executed whose callee is a closure
\* called with as many arguments as its function has parameters
ClosureCallDue ==
  /\ vm.running
  /\ READ_BYTE(vm, 0) = "OP_CALL"
  /\ peek_value(vm, READ_BYTE(vm, 1)).t = "closure"
  /\ READ_BYTE(vm, 1) =
       vm.functions[
         vm.closures[peek_value(vm, READ_BYTE(vm, 1)).v].function].arity

C14_ValueStackBounded == vm.stack_free_slot <= STACK_MAX
\* the expression of the line has been evaluated: OP_PRINTLN is next
Evaluated == vm.running /\ READ_BYTE(vm, 0) = "OP_PRINTLN"

\* the values above slot 0 of the frame, which holds the closure called
Temporaries == vm.stack_free_slot - top_frame(vm).slots

IsLogicLine == Len(source) = 4 /\ source[2].type \in {"TOKEN_AND", "TOKEN_OR"}

\* the value a literal token denotes
LiteralValue(token) ==
  CASE token.type = "TOKEN_NIL" -> NIL_VALUE
    [] token.type = "TOKEN_FALSE" -> BOOL_VALUE(FALSE)
    [] token.type = "TOKEN_TRUE" -> BOOL_VALUE(TRUE)
    [] token.type = "TOKEN_NUMBER" -> NUMBER_VALUE(token.number)

\* nil and false are falsy, every other value is truthy
Falsy(value) == value \in {NIL_VALUE, BOOL_VALUE(FALSE)}

\* the left operand decides the result
ShortCircuits ==
  IF source[2].type = "TOKEN_AND" THEN Falsy(LiteralValue(source[1]))
  ELSE ~Falsy(LiteralValue(source[1]))

\* the instructions executed that push the value of a literal
OperandsEvaluated ==
  Cardinality({i \in DOMAIN trace :
                 trace[i] \in {"OP_NIL", "OP_TRUE", "OP_FALSE",
                               "OP_LOAD_CONSTANT"}})

\* C17: when `a and b` or `a or b` has been evaluated exactly one value is
\* left on the stack; it is the value of a, and the code of b was not
\* executed, if a is falsy (and) or truthy (or), and the value of b otherwise.
C17_ShortCircuit ==
  (IsLogicLine /\ Evaluated)
    => /\ Temporaries = 1
       /\ IF ShortCircuits
          THEN /\ peek_value(vm, 0) = LiteralValue(source[1])
               /\ OperandsEvaluated = 1
          ELSE /\ peek_value(vm, 0) = LiteralValue(source[3])
               /\ OperandsEvaluated = 2

C17_Witness ==
  /\ IsLogicLine
  /\ Evaluated
  /\ ShortCircuits
  /\ source[2].type = "TOKEN_OR"
  /\ peek_value(vm, 0) = NUMBER_VALUE(0)

IsChain == source # <<>> /\ ~IsLogicLine

RECURSIVE Minuses(_)
Minuses(tokens) ==
  IF Head(tokens).type = "TOKEN_MINUS" THEN 1 + Minuses(Tail(tokens)) ELSE 0

Negated(n, times) == IF times % 2 = 1 THEN -n ELSE n

Applied(left, operator, right) ==
  CASE operator.type = "TOKEN_MINUS" -> left - right
    [] operator.type = "TOKEN_PLUS" -> left + right
    [] operator.type = "TOKEN_STAR" -> left * right

\* ((left op n) op n) ..., for the tokens `op n op n ... EOF`
RECURSIVE GroupedLeft(_, _)
GroupedLeft(left, tokens) ==
  IF Head(tokens).type = "TOKEN_EOF" THEN left
  ELSE GroupedLeft(Applied(left, tokens[1], tokens[2].number),
                   SubSeq(tokens, 3, Len(tokens)))

\* the value of `- ... - n op n op n ...` when the minus signs nest to the
\* right around n and the binary operators group to the left
ChainValue(tokens) ==
  GroupedLeft(
    Negated(tokens[Minuses(tokens) + 1].number, Minuses(tokens)),
    SubSeq(tokens, Minuses(tokens) + 2, Len(tokens)))

\* C18: the code compiled for a chain of binary operators of one precedence
\* evaluates it grouped to the left, and the code for a chain of unary minus
\* signs evaluates it nested to the right: 1-2-3 yields -4 and ---1 yields -1.
C18_Associativity ==
  IsChain
    => /\ vm.result \notin {"INTERPRET_COMPILE_ERROR", "INTERPRET_RUNTIME_ERROR"}
       /\ Evaluated
            => /\ Temporaries = 1
               /\ peek_value(vm, 0) = NUMBER_VALUE(ChainValue(source))

\* 1-2-3 has been evaluated and its value is -4
C18_Witness ==
  /\ source = <<NumberToken(1), Token("TOKEN_MINUS"), NumberToken(2),
                Token("TOKEN_MINUS"), NumberToken(3), Token("TOKEN_EOF")>>
  /\ Evaluated
  /\ peek_value(vm, 0) = NUMBER_VALUE(-4)
\* C19: when the compilation of a program reports an error, vm__interpret
\* returns INTERPRET_COMPILE_ERROR and executes nothing: the global variables
\* are those of before the call and the value and frame stacks are empty.
C19_CompileErrorRunsNothing ==
  [][~vm.running
       => \A program \in Programs :
            (/\ vm' = Interpreted(vm, program)
             /\ compiler__compile(vm.functions, program).had_error)
              => /\ vm'.result = "INTERPRET_COMPILE_ERROR"
                 /\ ~vm'.running
                 /\ vm'.global_vars = vm.global_vars
                 /\ vm'.stack_free_slot = 0
                 /\ vm'.frames = <<>>]_vars

\* a line that does not compile (`var x = 1; return 1;` does not define x),
\* after a line that defined a global variable
C19_Witness ==
  /\ vm.result = "INTERPRET_COMPILE_ERROR"
  /\ DOMAIN vm.global_vars # {"list"}
  /\ "x" \notin DOMAIN vm.global_vars

\* C20: a function never records more than 256 upvalues: the compiler
\* reports an error for one more distinct captured variable and writes no
\* entry at an index of the upvalues array from 256 on (an entry is written
\* at index upvalues_count, which is then incremented)
C20_UpvaluesCapped ==
  \A f \in DOMAIN vm.functions : vm.functions[f].upvalues_count <= UINT8_COUNT
\* in the script `1; 2; ...; n;` every statement takes three bytes
\* (OP_LOAD_CONSTANT, its operand, OP_POP or OP_PRINTLN): the instruction
\* pointer is a multiple of 3 when the OP_LOAD_CONSTANT of the statement
\* number ip / 3 has just been executed
ConstantLoaded == vm.running /\ top_frame(vm).ip % 3 = 0

RECURSIVE LinkedFrom(_, _)
LinkedFrom(l, it) ==
  IF it = l.tail THEN <<>>
  ELSE <<it>> \o LinkedFrom(l, l.nodes[it].next)

Linked(l) == LinkedFrom(l, l.nodes[l.head].next)

Elements(l) == [i \in DOMAIN Linked(l) |-> l.nodes[Linked(l)[i]].value]

\* the sequence without its element number i
Without(s, i) == SubSeq(s, 1, i - 1) \o SubSeq(s, i + 1, Len(s))

FirstOf(s, value) == Min({i \in DOMAIN s : s[i] = value})

\* what one call does to the elements, to count and to the value returned
ToyEffect ==
  /\ toy_call'.op = "list__append"
       => /\ Elements(toy') = Append(Elements(toy), toy_call'.value)
          /\ toy'.count = toy.count + 1
  /\ toy_call'.op = "list__prepend"
       => /\ Elements(toy') = <<toy_call'.value>> \o Elements(toy)
          /\ toy'.count = toy.count + 1
  /\ (toy_call'.op = "list__delete"
        /\ toy_call'.value \in Range(Elements(toy)))
       => /\ toy_call'.returned
          /\ Elements(toy') =
               Without(Elements(toy), FirstOf(Elements(toy), toy_call'.value))
          /\ toy'.count = toy.count - 1
  /\ (toy_call'.op = "list__delete"
        /\ toy_call'.value \notin Range(Elements(toy)))
       => /\ ~toy_call'.returned
          /\ toy' = toy

\* C22: after any sequence of list__append, list__prepend and list__delete
\* on a new list, count is the number of nodes linked between the head and
\* the tail sentinels (none of them freed); an append or a prepend adds one
\* element, a delete of a present text removes exactly one node and returns
\* true, a delete of an absent text returns false and changes nothing
C22_CountIsLinked ==
  /\ [](/\ toy.count = Len(Linked(toy))
        /\ \A i \in DOMAIN Linked(toy) : ~toy.nodes[Linked(toy)[i]].freed)
  /\ [][ToyEffect]_vars

\* a delete has removed one of the elements of a full list
C22_Witness ==
  /\ toy_call.op = "list__delete"
  /\ toy_call.returned
  /\ toy.count = 2
  /\ Len(toy.nodes) = 2 + MaxToyNodes

\* an entry that was never used, and a tombstone
IsEmpty(entry) == entry.key = NULL /\ entry.value = NIL_VALUE

IsTombstone(entry) == entry.key = NULL /\ entry.value # NIL_VALUE

Used == {i \in 1..table.capacity : ~IsEmpty(table.entries[i])}

Tombstones == {i \in 1..table.capacity : IsTombstone(table.entries[i])}

\* C23: after any sequence of table__set and table__delete, count is the
\* number of live keys and tombstones and is at most 0.75 * capacity, so an
\* entry of a table with entries was never used, and the loops of find_entry
\* and table__find_string end for every key
C23_LoadBounded ==
  /\ table.count = Cardinality(Used)
  /\ 4 * table.count <= 3 * table.capacity
  /\ table.capacity > 0 =>
       /\ \E i \in 1..table.capacity : IsEmpty(table.entries[i])
       /\ \A key \in TableKeys :
            /\ find_entry(table.entries, table.capacity, key) # 0
            /\ find_string(table, key) # -1

\* a table__set has filled the table to 0.75 * capacity, tombstones included
C23_Witness ==
  /\ table.capacity > 0
  /\ 4 * table.count = 3 * table.capacity
  /\ Tombstones # {}
  /\ Cardinality(DOMAIN table_map) + Cardinality(Tombstones) = table.count

\* the keys that table__get finds
Found == {key \in TableKeys : table__get_in(table, key).returned}

\* C24: across any sequence of table__set, table__delete and table__get the
\* table is a map: table__get finds just the keys that were set and not
\* deleted since, each with the value of its latest table__set, table__set
\* returns true just for the keys that are not present, and table__delete
\* just for those that are
C24_BehavesAsMap ==
  /\ Found = DOMAIN table_map
  /\ \A key \in DOMAIN table_map :
       table__get_in(table, key) = [returned |-> TRUE, value |-> table_map[key]]
  /\ \A key \in TableKeys :
       /\ is_new_key(table, key) <=> key \notin DOMAIN table_map
       /\ deleted(table, key) <=> key \in DOMAIN table_map

\* the table has grown to 16 entries and a key has been deleted since; a key
\* that is present is found behind the tombstone
C24_Witness ==
  /\ table.capacity = 2 * GROW_CAPACITY(0)
  /\ table.count = Cardinality(DOMAIN table_map) + 1
  /\ \E key \in DOMAIN table_map :
       LET home == (KeyHash(key) % table.capacity) + 1
           entry == find_entry(table.entries, table.capacity, key)
       IN /\ IsTombstone(table.entries[home])
          /\ entry # home

\* run() is about to call close_upvalues, for OP_CLOSE_UPVALUE or OP_RETURN
Closing ==
  /\ vm.running
  /\ READ_BYTE(vm, 0) \in {"OP_CLOSE_UPVALUE", "OP_RETURN"}

\* the argument `last` of that call: the top of the stack, or the first slot
\* of the frame
ClosingLast ==
  IF READ_BYTE(vm, 0) = "OP_CLOSE_UPVALUE" THEN vm.stack_free_slot
  ELSE top_frame(vm).slots

StaysOpen(upvalue) == vm.upvalues[upvalue].location < ClosingLast

\* what an OP_CLOSE_UPVALUE or an OP_RETURN does to the upvalues that were open
ClosedFrom ==
  LET after == OpenList(vm', vm'.open_upvalues)
  IN /\ \A i \in 1..Len(after) :
          vm'.upvalues[after[i]].location < ClosingLast
     /\ after = SelectSeq(OpenUpvalues, StaysOpen)
     /\ \A i \in 1..Len(OpenUpvalues) :
          LET before == vm.upvalues[OpenUpvalues[i]]
              upvalue == vm'.upvalues[OpenUpvalues[i]]
          IN IF before.location >= ClosingLast
             THEN /\ upvalue.location = 0
                  /\ upvalue.closed = vm.value_stack[before.location]
             ELSE /\ upvalue.location = before.location
                  /\ upvalue.closed = before.closed
                  /\ upvalue.next = before.next

\* C25: after close_upvalues(last) no upvalue of the open list has a location
\* >= last; each upvalue that was closed has in its closed field the value
\* that its stack slot had, and its location is that field; the open upvalues
\* with a location < last are still on the list, in the same order, and are
\* as they were
C25_CloseUpvalues == [][Closing => ClosedFrom]_vars

\* the block of line 6 has closed the upvalue of b, which set() had set to 3,
\* and the upvalue of a is still open
C25_Witness ==
  /\ vm.running
  /\ Len(OpenUpvalues) = 1
  /\ \E upvalue \in DOMAIN vm.upvalues :
       /\ vm.upvalues[upvalue].location = 0
       /\ vm.upvalues[upvalue].closed = NUMBER_VALUE(3)
       /\ vm.upvalues[upvalue].variable
            > vm.upvalues[OpenUpvalues[1]].location

Grew == request.new_size > request.old_size

\* the end of a collection: next_gc_in_bytes is twice bytes_allocated
CycleEnded ==
  request.cycles > 0 =>
    gc_bytes.next_gc_in_bytes = 2 * gc_bytes.bytes_allocated

\* before the first request (no request begins with next_gc_in_bytes = 0)
\* next_gc_in_bytes is 1 MiB
InitialThreshold ==
  gc_bytes.build # "none" /\ request.threshold = 0
    => gc_bytes.next_gc_in_bytes = 1024 * 1024

\* C27 as it is stated: memory__reallocate starts a collection only when the
\* request grows a block and the updated bytes_allocated exceeds
\* next_gc_in_bytes (1 MiB at first); a request that shrinks or frees starts
\* none; at the end of a collection next_gc_in_bytes is 2 * bytes_allocated
C27_GcOnlyOverThreshold ==
  /\ request.cycles > 0 => Grew /\ request.updated > request.threshold
  /\ ~Grew => request.cycles = 0
  /\ CycleEnded
  /\ InitialThreshold

\* C27, amended: in a build without DEBUG_STRESS_GC memory__reallocate
\* starts a collection when, and only when, the request grows a block and
\* the updated bytes_allocated exceeds next_gc_in_bytes (1 MiB at first); in
\* a build with DEBUG_STRESS_GC it starts one at every request that grows a
\* block; in both a request starts at most one collection, a request that
\* shrinks or frees starts none, and at the end of a collection
\* next_gc_in_bytes is 2 * bytes_allocated
C27_GcByBuild ==
  /\ gc_bytes.build = "default" =>
       (request.cycles > 0 <=> Grew /\ request.updated > request.threshold)
  /\ gc_bytes.build = "DEBUG_STRESS_GC" => (request.cycles > 0 <=> Grew)
  /\ request.cycles <= 1
  /\ ~Grew => request.cycles = 0
  /\ CycleEnded
  /\ InitialThreshold

\* in the default build a request has taken bytes_allocated over the
\* threshold, and the collection has freed a block and left others
C27_Witness ==
  /\ gc_bytes.build = "default"
  /\ Grew
  /\ request.updated > request.threshold
  /\ request.cycles = 1
  /\ gc_bytes.bytes_allocated < request.updated
  /\ gc_bytes.bytes_allocated > request.new_size
  /\ gc_bytes.next_gc_in_bytes = 2 * gc_bytes.bytes_allocated

\* nursery scopes are nested, or were and the outermost is still open
NestedScopes ==
  \/ nursery.object_nursery_nested_scopes >= 2
  \/ nursery.object_nursery_nested_scopes = 1 /\ nursery.nursery_inner_closed

\* the outermost nursery scope is closed by this step
OutermostClose ==
  /\ nursery.object_nursery_nested_scopes = 1
  /\ nursery'.object_nursery_nested_scopes = 0

\* C28: with nested nursery scopes, before and after an inner scope is
\* closed, no object allocated since the outermost open has been freed by a
\* collection; a close of an inner scope leaves object_nursery_end as it is,
\* and after the outermost close object_nursery_nested_scopes is 0 and
\* object_nursery_end is NULL
C28_NestedScopesProtect ==
  /\ [](NestedScopes => nursery.nursery_lost = {})
  /\ [][OutermostClose => nursery'.object_nursery_end = NULL]_vars
(***************************************************************************)
(* C29: at every point where a collection can run, the pointer the         *)
(* collector starts from is NULL or designates the innermost context still *)
(* under compilation, and the walk along the enclosing links visits        *)
(* exactly the contexts under compilation.                                 *)
(***************************************************************************)
DesignatesInnermost(point) ==
  \/ point.current = NULL
  \/ point.status = "active" /\ point.current = point.innermost

\* C29: every allocation request finds the pointer NULL or at the innermost
\* context under compilation, never at a context that is finished or whose
\* call has returned, and the walk visits exactly the active contexts
C29_CurrentCompilerActive ==
  \A i \in DOMAIN gc_points :
    /\ DesignatesInnermost(gc_points[i])
    /\ gc_points[i].marked = gc_points[i].active
(***************************************************************************)
(* C30: upvalue registration is idempotent.                                *)
(***************************************************************************)
\* no two entries of the list have equal (index, is_local)
DistinctUpvalues(upvalues) ==
  \A i, j \in DOMAIN upvalues :
    /\ upvalues[i].index = upvalues[j].index
    /\ upvalues[i].is_local = upvalues[j].is_local
    => i = j

\* C30: within one function, a variable of an enclosing function that was
\* resolved before resolves to the upvalue index returned the first time
\* and leaves upvalues_count as it is, in the function and in those around
\* it, and no two entries of a function's upvalue list are equal
C30_UpvalueIdempotent ==
  /\ \A level \in DOMAIN upv.compilers :
       /\ DistinctUpvalues(upv.compilers[level].upvalues)
       /\ UpvaluesCounts(upv)[level] = Len(upv.compilers[level].upvalues)
  /\ upv_call.done /\ upv_call.known =>
       /\ upv_call.returned = upv_call.first
       /\ upv_call.after = upv_call.before

\* a function nested in a function has referred a second time to a
\* variable declared two functions up
C30_Witness ==
  /\ upv_call.done /\ upv_call.known
  /\ Len(upv.compilers) = 3
  /\ upv_call.returned = 0
  /\ upv_call.after = <<0, 1, 1>>
  /\ ~upv.compilers[3].upvalues[1].is_local
  /\ upv.compilers[2].upvalues[1].is_local
(***************************************************************************)
(* C31: the order in which an identifier is resolved.  What the reference  *)
(* must resolve to is read off the chain of FunctionCompilers as it was    *)
(* before the reference was compiled.                                      *)
(***************************************************************************)
\* the position in locals of the local called `name` declared last, or 0
LatestLocal(compiler, name) ==
  IF \E i \in DOMAIN compiler.locals : compiler.locals[i].name = name
  THEN CHOOSE i \in DOMAIN compiler.locals :
         /\ compiler.locals[i].name = name
         /\ \A j \in DOMAIN compiler.locals :
              compiler.locals[j].name = name => j <= i
  ELSE 0

\* the nearest function around the one at `level` that declares `name`
DeclaringLevel(c, name, level) ==
  IF \E outer \in 1..(level - 1) :
       LatestLocal(c.compilers[outer], name) # 0
  THEN CHOOSE outer \in 1..(level - 1) :
         /\ LatestLocal(c.compilers[outer], name) # 0
         /\ \A other \in 1..(level - 1) :
              LatestLocal(c.compilers[other], name) # 0 => other <= outer
  ELSE 0

\* the local variable, <<level, slot>>, that upvalue `index` of the
\* function at `level` stands for
RECURSIVE UpvalueTarget(_, _, _)
UpvalueTarget(c, level, index) ==
  IF level < 2 \/ index + 1 \notin DOMAIN c.compilers[level].upvalues
  THEN <<0, 0>>
  ELSE IF c.compilers[level].upvalues[index + 1].is_local
  THEN <<level - 1, c.compilers[level].upvalues[index + 1].index>>
  ELSE UpvalueTarget(c, level - 1,
                     c.compilers[level].upvalues[index + 1].index)

\* the instructions of the statement compiled last
Emitted(c) ==
  SubSeq(c.functions[current_bytecode(c)].code,
         Len(c.functions[current_bytecode(c)].code) - 2,
         Len(c.functions[current_bytecode(c)].code))

\* the step compiles the statement `name;`
ReferenceStep == upv_steps' = upv_steps + 1 /\ upv_call'.name # ""

ResolvedInOrder(name, level) ==
  IF LatestLocal(upv.compilers[level], name) # 0
  THEN Emitted(upv') =
         <<"OP_GET_LOCAL", LatestLocal(upv.compilers[level], name) - 1,
           "OP_POP">>
  ELSE IF DeclaringLevel(upv, name, level) # 0
  THEN LET outer == DeclaringLevel(upv, name, level)
           local == LatestLocal(upv.compilers[outer], name)
       IN /\ Emitted(upv')[1] = "OP_GET_UPVALUE"
          /\ UpvalueTarget(upv', level, Emitted(upv')[2])
               = <<outer, local - 1>>
          /\ upv'.compilers[outer].locals[local].is_captured
  ELSE /\ Emitted(upv')[1] = "OP_GET_GLOBAL"
       /\ upv'.functions[current_bytecode(upv')].constants[
            Emitted(upv')[2] + 1] = OBJECT_VALUE("string", name)

\* C31: an identifier resolves to the local of that name declared last in
\* the current function; failing that to the variable of that name of the
\* nearest enclosing function that declares one, through an upvalue, that
\* local being marked as captured; failing that to a global, by name
C31_ResolutionOrder ==
  [][ReferenceStep =>
       ResolvedInOrder(upv_call'.name, Len(upv.compilers))]_vars

\* a reference compiled in a function nested in a function, to a name
\* declared twice in the script and not in the function in between: the
\* later of the two locals is captured, the earlier is not
C31_Witness ==
  /\ upv_call.done /\ upv_call.returned # -1
  /\ Len(upv.compilers) = 3
  /\ LatestLocal(upv.compilers[2], upv_call.name) = 0
  /\ \E i, j \in DOMAIN upv.compilers[1].locals :
       /\ i < j
       /\ upv.compilers[1].locals[i].name = upv_call.name
       /\ upv.compilers[1].locals[j].name = upv_call.name
       /\ upv.compilers[1].locals[j].is_captured
       /\ ~upv.compilers[1].locals[i].is_captured

(***************************************************************************)
(* C32: an `=` that follows an operand parsed above PREC_ASSIGNMENT is     *)
(* never consumed as an assignment to that operand.  Of a compiled line:   *)
(* if the target is assignable and stands at assignment level, every `=`   *)
(* of the line compiles to one OP_SET_* and no error is reported; if a     *)
(* tail follows a target that is an operand of an operator, or that is no  *)
(* variable or property, the only message is "Invalid assignment target."  *)
(* and no OP_SET_* is emitted for the target, so `a + b = 2` is rejected   *)
(* and not compiled as `a + (b = 2)`; and can_assign has again the value   *)
(* it had before the line, whatever the line.                              *)
(***************************************************************************)
SetInstructions ==
  {"OP_SET_GLOBAL", "OP_SET_LOCAL", "OP_SET_UPVALUE", "OP_SET_PROPERTY"}

\* the operand bytes that follow an instruction of an expression
OperandWidth(instruction) ==
  CASE instruction \in {"OP_JUMP", "OP_JUMP_IF_FALSE", "OP_LOOP"} -> 2
    [] instruction \in
         {"OP_LOAD_CONSTANT", "OP_GET_GLOBAL", "OP_SET_GLOBAL",
          "OP_GET_LOCAL", "OP_SET_LOCAL", "OP_GET_UPVALUE",
          "OP_SET_UPVALUE", "OP_GET_PROPERTY", "OP_SET_PROPERTY",
          "OP_CALL"} -> 1
    [] OTHER -> 0

\* the offsets of code, from offset i on, at which an instruction starts
RECURSIVE InstructionOffsets(_, _)
InstructionOffsets(code, i) ==
  IF i > Len(code) THEN {}
  ELSE {i} \cup InstructionOffsets(code, i + 1 + OperandWidth(code[i]))

SetCount(code) ==
  Cardinality({i \in InstructionOffsets(code, 1) :
                 code[i] \in SetInstructions})

\* the `=` of the context, which assigns to `a`
ContextAssignments(line) == IF line.context = "assign" THEN 1 ELSE 0

TailAssignments(line) ==
  CASE line.tail = "none" -> 0
    [] line.tail = "assign" -> 1
    [] line.tail = "chain" -> 2

AssignableTarget(line) ==
  line.target \in
    {"variable", "property", "nested_property", "grouped_property",
     "call_property"}

AtAssignmentLevel(line) == line.context \in {"none", "assign", "group"}

ValidAssignment(line) ==
  line.tail = "none" \/ (AssignableTarget(line) /\ AtAssignmentLevel(line))

C32_OperandNotAssigned ==
  assigned.done =>
    /\ assigned.can_assign = NotCompiled.can_assign
    /\ IF ValidAssignment(assign_line)
         THEN /\ ~assigned.had_error
              /\ assigned.messages = {}
              /\ SetCount(assigned.code) =
                   ContextAssignments(assign_line)
                     + TailAssignments(assign_line)
         ELSE /\ assigned.had_error
              /\ assigned.messages = {"Invalid assignment target."}
              /\ SetCount(assigned.code) = ContextAssignments(assign_line)

\* `a + b = 2` was compiled and rejected, and so was `a + (b).c = 2`, whose
\* target is parsed with can_assign restored after the group
C32_Witness ==
  /\ assigned.done
  /\ assign_line.context = "plus"
  /\ assign_line.target \in {"variable", "grouped_property"}
  /\ assign_line.tail = "assign"
  /\ assigned.had_error
  /\ SetCount(assigned.code) = 0

(***************************************************************************)
(* C33: a forward jump of a distance d = count at patch time - operand     *)
(* offset - 2 of at most 65535 is written by patch_jump as two bytes that  *)
(* READ_SHORT, high byte first, decodes to d, so that the jump lands on    *)
(* the instruction emitted right after the patch; for a greater d a        *)
(* compile error is recorded; and the same holds for the backward          *)
(* distance that emit_loop writes, which leads back to loop_start_offset.  *)
(***************************************************************************)
\* what READ_SHORT gives for the operand at offset
DecodedAt(offset) ==
  SHORT(jumps.instructions[offset], jumps.instructions[offset + 1])

\* where the instruction pointer is once READ_SHORT has read the operand
AfterOperand(offset) == offset + 2

ForwardDistance == jumped.target - jumped.offset - 2

BackwardDistance == AfterOperand(jumped.offset) - jumped.target

C33_JumpDistances ==
  /\ jumped.kind = "forward" =>
       IF ForwardDistance <= 65535
         THEN /\ DecodedAt(jumped.offset) = ForwardDistance
              /\ AfterOperand(jumped.offset) + DecodedAt(jumped.offset)
                   = jumped.target
              /\ ~jumped.reported
         ELSE jumped.reported /\ jumps.had_error
  /\ jumped.kind = "backward" =>
       IF BackwardDistance <= 65535
         THEN /\ DecodedAt(jumped.offset) = BackwardDistance
              /\ AfterOperand(jumped.offset) - DecodedAt(jumped.offset)
                   = jumped.target
              /\ ~jumped.reported
         ELSE jumped.reported /\ jumps.had_error

\* a forward jump of exactly 65535 bytes was patched without an error
C33_Witness ==
  /\ jumped.kind = "forward"
  /\ ForwardDistance = 65535
  /\ DecodedAt(jumped.offset) = 65535
  /\ ~jumps.had_error

(***************************************************************************)
(* C34: OP_SET_GLOBAL of a name on which OP_DEFINE_GLOBAL was never        *)
(* executed ends in a runtime error and leaves the name undefined: in the  *)
(* table of after, table__get of the name returns false and table__set     *)
(* would again report a new key, every other name has the value it had,    *)
(* and an OP_GET_GLOBAL or OP_SET_GLOBAL of the same name executed next    *)
(* ends in a runtime error too.                                            *)
(***************************************************************************)
Undefined(name) == name \notin DOMAIN globals_map

FailedSet(run) ==
  run.op = "OP_SET_GLOBAL" /\ run.result = "INTERPRET_RUNTIME_ERROR"

SetOfUndefined ==
  /\ globals_run'.op = "OP_SET_GLOBAL"
  /\ Undefined(globals_run'.name)
  /\ <<globals, globals_run>> # <<globals', globals_run'>>

C34_UndefinedStaysUndefined ==
  [][/\ SetOfUndefined =>
          /\ FailedSet(globals_run')
          /\ ~table__get_in(globals', globals_run'.name).returned
          /\ is_new_key(globals', globals_run'.name)
          /\ \A other \in TableKeys \ {globals_run'.name} :
               table__get_in(globals', other) = table__get_in(globals, other)
          /\ globals_map' = globals_map
     /\ (/\ FailedSet(globals_run)
         /\ globals_run'.name = globals_run.name
         /\ globals_run'.op \in {"OP_GET_GLOBAL", "OP_SET_GLOBAL"})
          => globals_run'.result = "INTERPRET_RUNTIME_ERROR"]_vars

\* the table took the name of a failed assignment as its seventh entry and
\* grew, with names defined in it
C34_Witness ==
  /\ FailedSet(globals_run)
  /\ globals.capacity = 16
  /\ Cardinality(DOMAIN globals_map) >= 2
  /\ \E name \in DOMAIN globals_map : globals_map[name] = NIL_VALUE

(***************************************************************************)
(* C35: on a list of length M and an index with the integral value i,      *)
(* OP_GET_INDEX and OP_SET_INDEX succeed exactly when -M <= i <= M - 1;    *)
(* they then work on the element i if i >= 0 and on the element M + i      *)
(* otherwise (OP_GET_INDEX pushes it and leaves the list as it is,         *)
(* OP_SET_INDEX replaces it, pushes the value and leaves the length and    *)
(* the other elements as they are); with any other integral index, an      *)
(* index that has no integral value or is no number, or a receiver that    *)
(* is no list, they end in a runtime error.                                *)
(***************************************************************************)
\* the index is a number of integral value between -M and M - 1
IndexInRange(run) ==
  /\ run.index.t = "number"
  /\ "kind" \notin DOMAIN run.index
  /\ 0 - Len(run.before) <= run.index.v
  /\ run.index.v <= Len(run.before) - 1

\* the element meant, counted from 1
ElementMeant(run) ==
  IF run.index.v >= 0 THEN run.index.v + 1
  ELSE Len(run.before) + run.index.v + 1

C35_IndexRange ==
  ix_run.op \in {"OP_GET_INDEX", "OP_SET_INDEX"} =>
    IF ix_run.receiver.t = "list" /\ IndexInRange(ix_run)
    THEN /\ ix.result = "pushed"
         /\ Len(ix.array) = Len(ix_run.before)
         /\ IF ix_run.op = "OP_GET_INDEX"
            THEN /\ ix.value_stack = <<ix_run.before[ElementMeant(ix_run)]>>
                 /\ ix.array = ix_run.before
            ELSE /\ ix.value_stack = <<ix_run.value>>
                 /\ ix.array =
                      [ix_run.before EXCEPT
                         ![ElementMeant(ix_run)] = ix_run.value]
    ELSE /\ ix.result = "INTERPRET_RUNTIME_ERROR"
         /\ ix.array = ix_run.before

\* list[-M] = value replaced the first element of a full list
C35_Witness ==
  /\ ix_run.op = "OP_SET_INDEX"
  /\ Len(ix_run.before) = MaxListLength
  /\ ix_run.index = NUMBER_VALUE(0 - MaxListLength)
  /\ ix.result = "pushed"
  /\ ix.array[1] = ix_run.value
  /\ ix_run.before[1] # ix_run.value

(***************************************************************************)
(* C36: when an OP_CALL n of a closure or of a native function whose       *)
(* checks passed has returned, the height of the value stack is its        *)
(* height of just before the OP_CALL minus n, the result of the call is    *)
(* in the slot that held the callee, and every slot below the callee       *)
(* holds what it held before the OP_CALL.  As stated, for every slot.      *)
(***************************************************************************)
Returned ==
  calls.returned.done /\ calls.returned.call.callee \in {"closure", "native"}

\* the slot of the callee, counted from 1
CalleeSlot(made) == Len(made.stack) - made.args_count

ResultReplacesCallee ==
  /\ vm.stack_free_slot
       = Len(calls.returned.call.stack) - calls.returned.call.args_count
  /\ vm.value_stack[CalleeSlot(calls.returned.call)] = calls.returned.result

SlotUnchanged(slot) ==
  vm.value_stack[slot] = calls.returned.call.stack[slot]

OpenLocations ==
  {vm.upvalues[upvalue].location :
     upvalue \in {OpenList(vm, vm.open_upvalues)[i] :
                    i \in DOMAIN OpenList(vm, vm.open_upvalues)}}

C37_ClosedNurseryHasNoEnd ==
  (~nursery.crashed /\ nursery.object_nursery_nested_scopes = 0) =>
    /\ nursery.object_nursery_end = NULL
    /\ NurseryRegion(nursery) = <<>>

(***************************************************************************)
(* C38: an object handed to store_constant is not freed by a collection    *)
(* run while the constants array grows to take it: every object in the     *)
(* constants of a function that is reachable from the roots is an object   *)
(* linked in vm->objects.                                                  *)
(***************************************************************************)
ReachableFunctions ==
  {a \in Reachable(mem) \cap Range(mem.objects) :
     mem.heap[a].type = "function"}

C38_ConstantsLinked ==
  \A fn \in ReachableFunctions :
    \A i \in DOMAIN mem.heap[fn].constants :
      mem.heap[fn].constants[i] \in Addrs =>
        /\ IsCell(mem.heap, mem.heap[fn].constants[i])
        /\ mem.heap[fn].constants[i] \in Range(mem.objects)

(***************************************************************************)
(* C39: whenever the next step is an allocation request, at which a        *)
(* collection can run, every reference field that mark_object_references   *)
(* reads in an object linked in vm->objects has been written: the name,    *)
(* the docstring and the function of the object hold NULL or an address,   *)
(* never the value malloc left there.                                      *)
(***************************************************************************)
AllocatingSteps == {"copy", "new_string", "intern"}

CollectionCanRun ==
  ~mem.crashed /\ todo # <<>> /\ Head(todo).op \in AllocatingSteps

ReferenceFields(o) ==
  IF o.type \in {"function", "native"} THEN {o.name, o.docstring}
  ELSE IF o.type = "class" THEN {o.name}
  ELSE IF o.type = "closure" THEN {o.function}
  ELSE {}

C39_FieldsInitialised ==
  CollectionCanRun =>
    \A a \in Range(mem.objects) :
      IsCell(mem.heap, a) => GARBAGE \notin ReferenceFields(mem.heap[a])

(***************************************************************************)
(* C40: two closures created in the same activation that capture the same  *)
(* local variable hold the same upvalue object: no two upvalue objects     *)
(* belong to one variable that is still in its activation.  After the      *)
(* variable has been closed, an OP_SET_UPVALUE through one closure leaves  *)
(* the assigned value to be read by every closure that captured the        *)
(* variable.                                                               *)
(***************************************************************************)
OneUpvaluePerVariable ==
  \A u1, u2 \in DOMAIN vm.upvalues :
    (/\ vm.upvalues[u1].live
     /\ vm.upvalues[u2].live
     /\ vm.upvalues[u1].variable = vm.upvalues[u2].variable) => u1 = u2

\* the closures that captured the variable of `upvalue`: the ones created
\* while it was the upvalue of that variable
Capturing(m, upvalue) ==
  {c \in DOMAIN m.closures : upvalue \in Range(m.closures[c].upvalues)}

SetThroughClosed ==
  /\ OP_SET_UPVALUE
  /\ vm.upvalues[FrameUpvalue(vm, READ_BYTE(vm, 1))].location = 0

ObservedByOthers ==
  LET upvalue == FrameUpvalue(vm, READ_BYTE(vm, 1)) IN
  \A c \in Capturing(vm', upvalue) :
    \A i \in DOMAIN vm'.closures[c].upvalues :
      vm'.closures[c].upvalues[i] = upvalue =>
        UpvalueValue(vm', vm'.closures[c].upvalues[i]) = peek_value(vm, 0)

C40_SharedUpvalue ==
  []OneUpvaluePerVariable /\ [][SetThroughClosed => ObservedByOthers]_vars

\* a closure reads, from a closed upvalue that another closure holds too,
\* the value that was assigned after the variable was declared
C40_Witness ==
  /\ vm.upvalue_read.done
  /\ vm.upvalue_read.closed
  /\ vm.upvalue_read.value = NUMBER_VALUE(2)
  /\ \E c1, c2 \in DOMAIN vm.closures :
       /\ c1 # c2
       /\ Range(vm.closures[c1].upvalues) \cap Range(vm.closures[c2].upvalues)
            # {}

====
